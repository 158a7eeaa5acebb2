------------------------- MODULE ResumeScanProofs -------------------------
(***************************************************************************)
(* Proofs about interrupted and resumed scans, for every number of files,  *)
(* every set of roots and every checkpoint interval.                       *)
(***************************************************************************)
EXTENDS ResumeScan, TLAPS

LEMMA InitTypes == Init => TypeOK
<1> SUFFICES ASSUME Init PROVE TypeOK
  OBVIOUS
<1>1. /\ 0 \in 0 .. CheckpointInterval
      /\ 1 \in 1 .. NFiles + 1
      /\ [r \in Roots |-> {}] \in [Roots -> SUBSET Files]
  BY ResumeAssumption
<1>2. ResumeTypeOK
  BY <1>1 DEF Init, ResumeTypeOK
<1> QED BY <1>1, <1>2 DEF Init, TypeOK

(* begin() and the walker's filter choose values of the right kind.        *)
LEMMA StartTypes ==
  ASSUME TypeOK, NEW r \in Roots, Start(r)
  PROVE  TypeOK'
<1> USE ResumeAssumption, ScanAssumption DEF TypeOK, ResumeTypeOK, Files, NoFile, Checkpoints
<1>1. next_file' \in Files \cup {NoFile} /\ walk_pos' \in 1 .. NFiles + 1
  BY DEF Start, Begin, CanResume, Unloadable
<1>2. /\ checkpoint' \in Checkpoints \cup {Unloadable}
      /\ since_last_save' \in 0 .. CheckpointInterval
  BY DEF Start, Begin, SaveAs
<1>3. accounted' \in [Roots -> SUBSET Files]
  BY DEF Start
<1> QED BY <1>1, <1>2, <1>3 DEF Start, Begin

(* Every save, whatever its outcome, leaves a checkpoint of the right kind.*)
LEMMA CompletionTypes ==
  ASSUME TypeOK, NEW f \in Files, FileCompleted(f)
  PROVE  ResumeTypeOK'
<1> USE ResumeAssumption DEF TypeOK, ResumeTypeOK, Checkpoints
<1>1. unfinished_files' \subseteq Files /\ root' = root
      /\ discovery_finished' = discovery_finished
  BY DEF FileCompleted
<1>2. next_file' \in Files \cup {NoFile}
  BY <1>1 DEF FileCompleted, Smallest
<1>3. /\ checkpoint' \in Checkpoints \cup {Unloadable}
      /\ since_last_save' \in 0 .. CheckpointInterval
  BY <1>2 DEF FileCompleted, MaybeSave, SaveAs
<1> QED BY <1>1, <1>2, <1>3

(* Walking, a callback or not, keeps the types.                            *)
LEMMA VisitTypes ==
  ASSUME TypeOK, NEW f \in Files, Visit(f)
  PROVE  /\ walk_pos' \in 1 .. NFiles + 1
         /\ proc' \in {"down", "walking", "draining"}
         /\ AddFile(f) => ResumeTypeOK'
<1> USE ResumeAssumption DEF TypeOK, ResumeTypeOK, Files
<1>1. walk_pos' \in 1 .. NFiles + 1
  BY DEF Visit
<1>2. ASSUME AddFile(f) PROVE ResumeTypeOK'
  BY <1>2 DEF AddFile, Smallest
<1> QED BY <1>1, <1>2 DEF Visit

LEMMA AccountTypes ==
  ASSUME TypeOK, NEW f \in Files, AccountFor(f)
  PROVE  accounted' \in [Roots -> SUBSET Files]
BY DEF TypeOK, ResumeTypeOK, AccountFor

(* A process that is gone leaves a well-typed state behind.                *)
LEMMA LossTypes ==
  ASSUME TypeOK, ResumeMemoryLost, UNCHANGED checkpoint
  PROVE  ResumeTypeOK'
<1>1. since_last_save' \in 0 .. CheckpointInterval
  BY ResumeAssumption DEF ResumeMemoryLost
<1>2. checkpoint' \in Checkpoints \cup {Unloadable}
  BY DEF TypeOK, ResumeTypeOK
<1>3. root' \in Roots
  BY DEF ResumeMemoryLost
<1>4. unfinished_files' = {} /\ next_file' = NoFile /\ discovery_finished' = FALSE
  BY DEF ResumeMemoryLost
<1> QED BY <1>1, <1>2, <1>3, <1>4 DEF ResumeTypeOK

(* TypeOK is an invariant: saves that fail or are torn, crashes and        *)
(* resumes leave every variable of ResumeScan within its type.             *)
THEOREM TypeCorrect == Spec => []TypeOK
<1>1. Init => TypeOK
  BY InitTypes
<1>2. TypeOK /\ [Next]_vars => TypeOK'
  <2> SUFFICES ASSUME TypeOK, [Next]_vars PROVE TypeOK'
    OBVIOUS
  <2>1. CASE \E r \in Roots : Start(r)
    BY <2>1, StartTypes
  <2>2. ASSUME NEW f \in Files, CacheMiss(f) PROVE TypeOK'
    BY <2>2, VisitTypes DEF CacheMiss, TypeOK
  <2>3. ASSUME NEW f \in Files, CacheHit(f) PROVE TypeOK'
    BY <2>3, VisitTypes DEF CacheHit, TypeOK
  <2>4. ASSUME NEW f \in Files, PassOver(f) PROVE TypeOK'
    BY <2>4, VisitTypes, AccountTypes
    DEF PassOver, TypeOK, ResumeTypeOK, resume_vars, resume_memory
  <2>5. CASE CompleteHit
    <3>1. hit \in Files
      BY <2>5 DEF CompleteHit, TypeOK
    <3> QED BY <2>5, <3>1, CompletionTypes, AccountTypes DEF CompleteHit, TypeOK
  <2>6. ASSUME NEW f \in Files, CompleteTask(f) PROVE TypeOK'
    BY <2>6, CompletionTypes, AccountTypes DEF CompleteTask, TypeOK
  <2>7. ASSUME NEW f \in Files, TaskThrows(f) PROVE TypeOK'
    BY <2>7 DEF TaskThrows, TypeOK, ResumeTypeOK, resume_vars, resume_memory
  <2>8. CASE FinishDiscovery
    <3>1. next_file' \in Files \cup {NoFile}
      BY <2>8 DEF FinishDiscovery, DiscoveryFinished, TypeOK, ResumeTypeOK
    <3>2. /\ checkpoint' \in Checkpoints \cup {Unloadable}
          /\ since_last_save' \in 0 .. CheckpointInterval
      BY <2>8, <3>1, ResumeAssumption
      DEF FinishDiscovery, DiscoveryFinished, SaveAs, TypeOK, ResumeTypeOK, Checkpoints
    <3> QED BY <2>8, <3>1, <3>2
        DEF FinishDiscovery, DiscoveryFinished, TypeOK, ResumeTypeOK
  <2>9. CASE Finish
    BY <2>9, LossTypes, ResumeAssumption DEF Finish, TypeOK
  <2>10. CASE Crash
    BY <2>10, LossTypes, ResumeAssumption DEF Crash, TypeOK
  <2>11. CASE UNCHANGED vars
    BY <2>11 DEF vars, scan_memory, resume_vars, resume_memory, TypeOK, ResumeTypeOK
  <2> QED
    BY <2>1, <2>2, <2>3, <2>4, <2>5, <2>6, <2>7, <2>8, <2>9, <2>10, <2>11
    DEF Next, Walk, Work
<1> QED BY <1>1, <1>2, PTL DEF Spec
-----------------------------------------------------------------------------
Inv == TypeOK /\ SafetyInv

(* When the two orders agree, the smallest unfinished path precedes every  *)
(* other unfinished file in the walk.                                      *)
LEMMA SmallestIsFirst ==
  ASSUME OrdersAgree, NEW S \in SUBSET Files, NEW n \in Smallest(S), NEW g \in S
  PROVE  n <= g
<1>1. n \in Files /\ g \in Files /\ Key[n] \in Nat /\ Key[g] \in Nat
      /\ Key[n] <= Key[g] /\ n \in Int /\ g \in Int
  BY ResumeAssumption DEF Smallest, Files
<1>2. g < n => Key[g] < Key[n]
  BY <1>1 DEF OrdersAgree
<1> QED BY <1>1, <1>2

(* So the smallest of the unfinished files is a safe place to resume: what *)
(* the walk has passed before it is done.                                  *)
LEMMA ResumePointSafe ==
  ASSUME OrdersAgree,
         NEW all \in SUBSET Files, NEW unfinished \in SUBSET all, NEW done,
         NEW pos \in Int,
         \A f \in unfinished : f < pos,
         {f \in all : f < pos} \subseteq unfinished \cup done,
         NEW n \in Smallest(unfinished)
  PROVE  \A f \in all : f < n => f \in done
<1> TAKE f \in all
<1> HAVE f < n
<1>1. n \in unfinished /\ f \in Int /\ n \in Int
  BY DEF Smallest, Files
<1>2. f \notin unfinished
  BY <1>1, SmallestIsFirst
<1> QED BY <1>1, <1>2

(* Dealing with one more file of the scanned root makes no checkpoint      *)
(* unsafe, nor does writing down a resume point that is safe for it.       *)
LEMMA SaveKeepsSafe ==
  ASSUME TypeOK, CheckpointSafe,
         \A r \in Roots : accounted[r] \subseteq accounted'[r],
         \/ UNCHANGED checkpoint
         \/ checkpoint' = Unloadable
         \/ checkpoint'.status = "completed"
         \/ /\ checkpoint'.root = root
            /\ \A f \in FilesOf[root] : f < checkpoint'.next => f \in accounted'[root]
  PROVE  CheckpointSafe'
<1>1. CASE UNCHANGED checkpoint
  <2>1. ASSUME checkpoint.status = "running" PROVE checkpoint.root \in Roots
    BY <2>1 DEF TypeOK, ResumeTypeOK, Checkpoints, Unloadable
  <2> QED BY <1>1, <2>1 DEF CheckpointSafe
<1>2. CASE checkpoint' = Unloadable
  BY <1>2 DEF CheckpointSafe, Unloadable
<1>3. CASE checkpoint'.status = "completed"
  BY <1>3 DEF CheckpointSafe
<1>4. CASE /\ checkpoint'.root = root
           /\ \A f \in FilesOf[root] :
                f < checkpoint'.next => f \in accounted'[root]
  BY <1>4 DEF CheckpointSafe
<1> QED BY <1>1, <1>2, <1>3, <1>4

LEMMA AccountGrows ==
  ASSUME TypeOK, AccountFor(hit) \/ \E f \in Files : AccountFor(f)
  PROVE  /\ \A r \in Roots : accounted[r] \subseteq accounted'[r]
BY DEF AccountFor, TypeOK, ResumeTypeOK

(* Starting: a resumed walk begins where the checkpoint says, which is     *)
(* safe; a fresh one forgets only what no loadable checkpoint relies on.   *)
LEMMA StartSafe ==
  ASSUME Inv, NEW r \in Roots, Start(r)
  PROVE  SafetyInv'
<1> USE DEF Inv, TypeOK, ResumeTypeOK
<1>1. /\ unfinished_files' = {} /\ inflight' = {} /\ hit' = NoFile
      /\ proc' = "walking" /\ root' = r /\ ~discovery_finished'
  BY DEF Start, Begin, SafetyInv, DownIsBlank
<1>2. CASE CanResume(r)
  <2>1. /\ next_file' = checkpoint.next /\ accounted' = accounted
        /\ checkpoint' = checkpoint
        /\ checkpoint.status = "running" /\ checkpoint.root = r
    BY <1>2 DEF Start, Begin, CanResume
  <2>2. CheckpointSafe'
    BY <2>1 DEF SafetyInv, CheckpointSafe
  <2>3. \A f \in FilesOf[r] : f < walk_pos' => f \in accounted[r]
    <3>1. CASE next_file' = NoFile
      BY <3>1, ScanAssumption DEF Start, Files
    <3>2. CASE next_file' # NoFile
      BY <2>1, <3>2 DEF Start, SafetyInv, CheckpointSafe
    <3> QED BY <3>1, <3>2
  <2> QED BY <1>1, <2>1, <2>2, <2>3
      DEF SafetyInv, DownIsBlank, SeenIsKept, UnfinishedIsSeen, NextIsSmallest,
          DiscoveryIsOver, Seen
<1>3. CASE ~CanResume(r)
  <2>1. /\ next_file' = NoFile /\ walk_pos' = 1
        /\ accounted' = [accounted EXCEPT ![r] = {}]
        /\ SaveAs("running", r, NoFile, 0)
    BY <1>3 DEF Start, Begin
  <2>2. \A f \in FilesOf[r] : ~ (f < 1)
    BY ScanAssumption DEF Files
  <2>3. CheckpointSafe'
    <3>1. CASE checkpoint' = checkpoint
      <4> SUFFICES ASSUME checkpoint.status = "running"
                   PROVE  accounted'[checkpoint.root] = accounted[checkpoint.root]
        BY <3>1 DEF SafetyInv, CheckpointSafe
      <4>1. checkpoint.root # r /\ checkpoint.root \in Roots
        BY <1>3 DEF CanResume, Checkpoints, Unloadable
      <4> QED BY <2>1, <4>1
    <3>2. CASE checkpoint' = [status |-> "running", root |-> r, next |-> NoFile]
      BY <3>2, <2>2, ScanAssumption DEF CheckpointSafe, NoFile, Files
    <3>3. CASE checkpoint' = Unloadable
      BY <3>3 DEF CheckpointSafe, Unloadable
    <3> QED BY <2>1, <3>1, <3>2, <3>3 DEF SaveAs
  <2> QED BY <1>1, <2>1, <2>2, <2>3
      DEF SafetyInv, DownIsBlank, SeenIsKept, UnfinishedIsSeen, NextIsSmallest,
          DiscoveryIsOver, Seen
<1> QED BY <1>2, <1>3

(* Handing out the next file: it becomes unfinished, or is dealt with.     *)
LEMMA VisitSafe ==
  ASSUME Inv, OrdersAgree, NEW f \in Files, Walk(f)
  PROVE  SafetyInv'
<1> USE ScanAssumption DEF Inv, TypeOK, ResumeTypeOK, Files
<1>1. /\ proc = "walking" /\ proc' = "walking" /\ hit = NoFile
      /\ walk_pos' = f + 1 /\ f >= walk_pos /\ f \in FilesOf[root]
      /\ root' = root /\ checkpoint' = checkpoint
      /\ discovery_finished' = discovery_finished
  BY DEF Walk, CacheMiss, CacheHit, PassOver, Visit, Upcoming, AddFile,
         resume_vars, resume_memory
<1>2. Seen' = Seen \cup {f}
  BY <1>1 DEF Walk, CacheMiss, CacheHit, PassOver, Visit, Upcoming, Seen
<1>3. CASE AddFile(f) /\ accounted' = accounted
           /\ \/ inflight' = inflight \cup {f} /\ hit' = hit
              \/ inflight' = inflight /\ hit' = f
  <2>1. unfinished_files' = unfinished_files \cup {f}
        /\ next_file' \in Smallest(unfinished_files')
    BY <1>3 DEF AddFile
  <2>2. f \notin Seen
    BY <1>1 DEF Seen
  <2>3. UnfinishedIsSeen' /\ SeenIsKept'
    BY <1>1, <1>2, <1>3, <2>1, <2>2
    DEF SafetyInv, UnfinishedIsSeen, SeenIsKept, Seen
  <2> QED BY <1>1, <1>3, <2>1, <2>3
      DEF SafetyInv, DownIsBlank, NextIsSmallest, DiscoveryIsOver, CheckpointSafe
<1>4. CASE PassOver(f)
  <2>1. /\ accounted' = [accounted EXCEPT ![root] = @ \cup {f}]
        /\ unfinished_files' = unfinished_files /\ next_file' = next_file
        /\ inflight' = inflight /\ hit' = NoFile
    BY <1>1, <1>4 DEF PassOver, AccountFor, resume_vars, resume_memory
  <2>2. CheckpointSafe'
    BY <1>1, <1>4, AccountGrows, SaveKeepsSafe DEF PassOver, SafetyInv
  <2>3. UnfinishedIsSeen' /\ SeenIsKept'
    BY <1>1, <1>2, <2>1 DEF SafetyInv, UnfinishedIsSeen, SeenIsKept
  <2> QED BY <1>1, <2>1, <2>2, <2>3
      DEF SafetyInv, DownIsBlank, NextIsSmallest, DiscoveryIsOver
<1> QED BY <1>1, <1>3, <1>4 DEF Walk, CacheMiss, CacheHit

(* Completing a file: whatever is saved points at the smallest of the      *)
(* files that are left.                                                    *)
LEMMA CompletionSafe ==
  ASSUME Inv, OrdersAgree, NEW f \in Files, CompleteTask(f) \/ (hit = f /\ CompleteHit)
  PROVE  SafetyInv'
<1> USE DEF Inv, TypeOK, ResumeTypeOK
<1>1. /\ f \in unfinished_files /\ FileCompleted(f) /\ AccountFor(f)
      /\ unfinished_files' = unfinished_files \ {f}
      /\ UNCHANGED <<root, discovery_finished, proc, walk_pos>>
      /\ proc # "down"
  BY DEF CompleteTask, CompleteHit, FileCompleted, SafetyInv, UnfinishedIsSeen, DownIsBlank
<1>2. accounted' = [accounted EXCEPT ![root] = @ \cup {f}]
  BY <1>1 DEF AccountFor
<1>3. Seen' = Seen
  BY <1>1 DEF Seen
<1>4. UnfinishedIsSeen' /\ SeenIsKept'
  BY <1>1, <1>2, <1>3
  DEF CompleteTask, CompleteHit, SafetyInv, UnfinishedIsSeen, SeenIsKept, NoFile, Files
<1>5. NextIsSmallest'
  BY <1>1 DEF FileCompleted, NextIsSmallest
<1>6. DiscoveryIsOver'
  BY <1>1, <1>3 DEF SafetyInv, DiscoveryIsOver, CompleteTask, CompleteHit
<1>7. next_file' \in Smallest(unfinished_files') =>
        \A g \in FilesOf[root] : g < next_file' => g \in accounted'[root]
  <2> DEFINE all == FilesOf[root]
             unfinished == unfinished_files'
             done == accounted'[root]
  <2>1. all \in SUBSET Files
    BY ScanAssumption
  <2>2. unfinished \in SUBSET all /\ (\A g \in unfinished : g < walk_pos)
    BY <1>1, <1>3, <1>4 DEF UnfinishedIsSeen, Seen
  <2>3. {g \in all : g < walk_pos} \subseteq unfinished \cup done
    BY <1>1, <1>3, <1>4 DEF SeenIsKept, Seen
  <2>4. walk_pos \in Int
    OBVIOUS
  <2> HIDE DEF all, unfinished, done
  <2>5. ASSUME NEW n \in Smallest(unfinished)
        PROVE  \A g \in all : g < n => g \in done
    BY <2>1, <2>2, <2>3, <2>4, ResumePointSafe
  <2> QED BY <2>5 DEF all, unfinished, done
<1>8. CheckpointSafe'
  <2>1. \/ UNCHANGED checkpoint
        \/ checkpoint' = Unloadable
        \/ checkpoint'.status = "completed"
        \/ /\ checkpoint'.root = root
           /\ \A g \in FilesOf[root] : g < checkpoint'.next => g \in accounted'[root]
    BY <1>1, <1>7 DEF FileCompleted, MaybeSave, SaveAs
  <2> QED BY <1>1, <2>1, AccountGrows, SaveKeepsSafe DEF SafetyInv
<1>9. DownIsBlank'
  BY <1>1 DEF DownIsBlank
<1> QED BY <1>4, <1>5, <1>6, <1>8, <1>9 DEF SafetyInv

(* The end of discovery writes the resume point of the files still queued. *)
LEMMA DiscoverySafe ==
  ASSUME Inv, OrdersAgree, FinishDiscovery
  PROVE  SafetyInv'
<1> USE DEF Inv, TypeOK, ResumeTypeOK
<1>1. /\ proc = "walking" /\ proc' = "draining" /\ discovery_finished'
      /\ UNCHANGED <<root, unfinished_files, walk_pos, hit, inflight, accounted>>
      /\ hit = NoFile /\ Seen = FilesOf[root] /\ Seen' = Seen
  BY DEF FinishDiscovery, DiscoveryFinished, Seen
<1>2. NextIsSmallest'
  BY <1>1 DEF FinishDiscovery, DiscoveryFinished, SafetyInv, NextIsSmallest
<1>3. unfinished_files # {} =>
        \A g \in FilesOf[root] : g < next_file => g \in accounted[root]
  <2> DEFINE all == FilesOf[root]
             done == accounted[root]
  <2>1. all \in SUBSET Files /\ walk_pos \in Int
    BY ScanAssumption
  <2>2. /\ unfinished_files \in SUBSET all
        /\ \A g \in unfinished_files : g < walk_pos
        /\ {g \in all : g < walk_pos} \subseteq unfinished_files \cup done
    BY <1>1 DEF SafetyInv, UnfinishedIsSeen, SeenIsKept, Seen
  <2> HIDE DEF all, done
  <2>3. ASSUME NEW n \in Smallest(unfinished_files)
        PROVE  \A g \in all : g < n => g \in done
    BY <2>1, <2>2, ResumePointSafe
  <2> QED BY <2>3 DEF all, done, SafetyInv, NextIsSmallest
<1>4. CheckpointSafe'
  <2>1. \/ UNCHANGED checkpoint
        \/ checkpoint' = Unloadable
        \/ checkpoint'.status = "completed"
        \/ /\ checkpoint'.root = root
           /\ \A g \in FilesOf[root] : g < checkpoint'.next => g \in accounted'[root]
    BY <1>1, <1>3 DEF FinishDiscovery, DiscoveryFinished, SaveAs
  <2> QED BY <1>1, <2>1, SaveKeepsSafe DEF SafetyInv
<1> QED BY <1>1, <1>2, <1>4
    DEF SafetyInv, DownIsBlank, SeenIsKept, UnfinishedIsSeen, DiscoveryIsOver

(* When the process is gone, the checkpoint is all that is left.           *)
LEMMA LossSafe ==
  ASSUME Inv, Finish \/ Crash
  PROVE  SafetyInv'
<1>1. /\ proc' = "down" /\ walk_pos' = 1 /\ hit' = NoFile /\ inflight' = {}
      /\ unfinished_files' = {} /\ ~discovery_finished'
      /\ checkpoint' = checkpoint /\ accounted' = accounted
  BY DEF Finish, Crash, ResumeMemoryLost, Inv, SafetyInv, DiscoveryIsOver
<1>2. CheckpointSafe'
  BY <1>1 DEF Inv, SafetyInv, CheckpointSafe
<1> QED BY <1>1, <1>2
    DEF SafetyInv, DownIsBlank, SeenIsKept, UnfinishedIsSeen, NextIsSmallest, DiscoveryIsOver

LEMMA SafetyStep == ASSUME Inv, OrdersAgree, [Next]_vars PROVE SafetyInv'
<1>1. CASE \E r \in Roots : Start(r)
  BY <1>1, StartSafe
<1>2. ASSUME NEW f \in Files, Walk(f) PROVE SafetyInv'
  BY <1>2, VisitSafe
<1>3. ASSUME NEW f \in Files, CompleteTask(f) PROVE SafetyInv'
  BY <1>3, CompletionSafe
<1>4. ASSUME NEW f \in Files, TaskThrows(f) PROVE SafetyInv'
  BY <1>4 DEF TaskThrows, resume_vars, resume_memory, Inv, SafetyInv, DownIsBlank,
     SeenIsKept, UnfinishedIsSeen, NextIsSmallest, DiscoveryIsOver, CheckpointSafe, Seen
<1>5. CASE CompleteHit
  <2>1. hit \in Files
    BY <1>5 DEF CompleteHit, Inv, TypeOK
  <2> QED BY <1>5, <2>1, CompletionSafe
<1>6. CASE FinishDiscovery
  BY <1>6, DiscoverySafe
<1>7. CASE Finish \/ Crash
  BY <1>7, LossSafe
<1>8. CASE UNCHANGED vars
  BY <1>8 DEF vars, resume_vars, resume_memory, scan_memory, Inv, SafetyInv, DownIsBlank,
     SeenIsKept, UnfinishedIsSeen, NextIsSmallest, DiscoveryIsOver, CheckpointSafe, Seen
<1> QED BY <1>1, <1>2, <1>3, <1>4, <1>5, <1>6, <1>7, <1>8 DEF Next, Work

LEMMA SafetyInit == Init => SafetyInv
BY ScanAssumption
DEF Init, SafetyInv, DownIsBlank, SeenIsKept, UnfinishedIsSeen, NextIsSmallest,
    DiscoveryIsOver, CheckpointSafe, Unloadable, Seen, Files

(* As long as the walk and the set of unfinished files order the paths     *)
(* alike, the inductive invariant behind the resume point holds: every     *)
(* file the walk has passed is dealt with or remembered.                   *)
THEOREM SafetyInvariant == OrdersAgree => (Spec => []SafetyInv)
<1> SUFFICES ASSUME OrdersAgree PROVE Spec => []SafetyInv
  OBVIOUS
<1>1. Init => SafetyInv
  BY SafetyInit
<1>2. TypeOK /\ SafetyInv /\ [Next]_vars => SafetyInv'
  BY SafetyStep DEF Inv
<1> QED BY <1>1, <1>2, TypeCorrect, PTL DEF Spec

(* So every resume point ever written is safe: a resumed scan skips only   *)
(* files that were dealt with, wherever the crashes fall.                  *)
THEOREM ResumeIsSafe == OrdersAgree => (Spec => []CheckpointSafe)
<1> SUFFICES ASSUME OrdersAgree PROVE Spec => []CheckpointSafe
  OBVIOUS
<1>1. SafetyInv => CheckpointSafe
  BY DEF SafetyInv
<1>2. OrdersAgree
  OBVIOUS
<1> QED BY <1>1, <1>2, SafetyInvariant, PTL

(* A save that marks the scan completed happens after the walk has passed  *)
(* every file and the last unfinished one is dealt with.                   *)
LEMMA CompletedStep ==
  ASSUME Inv, OrdersAgree, [Next]_vars,
         checkpoint' # checkpoint, checkpoint'.status = "completed"
  PROVE  FilesOf[root] \subseteq accounted'[root]
<1>1. /\ unfinished_files' = {} /\ proc' # "down" /\ root' = root
      /\ Seen' = FilesOf[root]
  <2>1. CASE \E r \in Roots : Start(r)
    BY <2>1 DEF Start, Begin, SaveAs, Unloadable
  <2>2. CASE \E f \in Files : CompleteTask(f)
    BY <2>2 DEF CompleteTask, FileCompleted, MaybeSave, SaveAs, Unloadable,
       Inv, SafetyInv, DiscoveryIsOver, Seen
  <2>3. CASE CompleteHit
    BY <2>3 DEF CompleteHit, FileCompleted, MaybeSave, SaveAs, Unloadable,
       Inv, SafetyInv, DiscoveryIsOver, Seen
  <2>4. CASE FinishDiscovery
    BY <2>4 DEF FinishDiscovery, DiscoveryFinished, SaveAs, Unloadable, Seen
  <2>5. CASE \/ \E f \in Files : Walk(f) \/ TaskThrows(f)
             \/ Finish \/ Crash \/ UNCHANGED vars
    BY <2>5 DEF Walk, CacheMiss, CacheHit, AddFile, PassOver, TaskThrows, Finish, Crash,
       vars, resume_vars
  <2> QED BY <2>1, <2>2, <2>3, <2>4, <2>5 DEF Next, Work
<1>2. SeenIsKept'
  BY SafetyStep DEF SafetyInv
<1> QED BY <1>1, <1>2 DEF SeenIsKept

(* Under the same condition a checkpoint says "completed" only when every  *)
(* file below the root was dealt with, over all the runs it took.          *)
THEOREM CompletedIsComplete == OrdersAgree => (Spec => CompletedOnlyWhenDone)
<1> SUFFICES ASSUME OrdersAgree PROVE Spec => CompletedOnlyWhenDone
  OBVIOUS
<1>1. TypeOK /\ SafetyInv /\ [Next]_vars =>
        [checkpoint' # checkpoint /\ checkpoint'.status = "completed"
           => FilesOf[root] \subseteq accounted'[root]]_vars
  BY CompletedStep DEF Inv
<1>2. OrdersAgree
  OBVIOUS
<1> QED BY <1>1, <1>2, TypeCorrect, SafetyInvariant, PTL DEF Spec, CompletedOnlyWhenDone
-----------------------------------------------------------------------------
(* Within a process the saved resume point never passes a file that is     *)
(* still to be finished, so a later save cannot fall behind it.            *)
PointIsBehind ==
  proc # "down" /\ SavedAs(checkpoint, root) =>
    /\ checkpoint.next <= walk_pos
    /\ \A f \in unfinished_files : checkpoint.next <= f

LEMMA SavedHasPlace ==
  ASSUME TypeOK, NEW r \in Roots, SavedAs(checkpoint, r)
  PROVE  checkpoint.next \in Int
BY ResumeAssumption
DEF SavedAs, TypeOK, ResumeTypeOK, Checkpoints, Unloadable, Files, NoFile

(* What is saved while a process runs is the smallest unfinished file, or  *)
(* an end of the scan: neither lies behind what was saved before.          *)
LEMMA SavedIsSmallest ==
  ASSUME Inv, OrdersAgree, NEW S \in SUBSET unfinished_files, NEW n \in Smallest(S),
         proc # "down", PointIsBehind
  PROVE  /\ n \in Int /\ n <= walk_pos /\ \A g \in S : n <= g
         /\ SavedAs(checkpoint, root) => checkpoint.next <= n
<1>1. n \in S /\ S \in SUBSET Files /\ n \in Int /\ walk_pos \in Int
  BY DEF Smallest, Inv, TypeOK, ResumeTypeOK, Files
<1>2. n < walk_pos
  BY <1>1 DEF Inv, SafetyInv, UnfinishedIsSeen, Seen
<1> QED BY <1>1, <1>2, SmallestIsFirst DEF PointIsBehind

LEMMA CompletionAdvances ==
  ASSUME Inv, OrdersAgree, PointIsBehind, proc # "down", NEW f, FileCompleted(f)
  PROVE  /\ \/ checkpoint' = checkpoint
            \/ ~ SavedAs(checkpoint', root)
            \/ /\ checkpoint'.next \in Int /\ checkpoint'.next <= walk_pos
               /\ \A g \in unfinished_files' : checkpoint'.next <= g
               /\ SavedAs(checkpoint, root) => checkpoint.next <= checkpoint'.next
<1>1. unfinished_files' \in SUBSET unfinished_files
  BY DEF FileCompleted
<1>2. ASSUME next_file' \in Smallest(unfinished_files')
      PROVE  /\ next_file' \in Int /\ next_file' <= walk_pos
             /\ \A g \in unfinished_files' : next_file' <= g
             /\ SavedAs(checkpoint, root) => checkpoint.next <= next_file'
  BY <1>1, <1>2, SavedIsSmallest
<1> QED BY <1>2 DEF FileCompleted, MaybeSave, SaveAs, SavedAs, Unloadable

LEMMA AdvanceStep ==
  ASSUME Inv, OrdersAgree, PointIsBehind, [Next]_vars
  PROVE  /\ PointIsBehind'
         /\ proc # "down" /\ SavedAs(checkpoint, root) /\ SavedAs(checkpoint', root)
              => checkpoint'.next >= checkpoint.next
<1> USE DEF Inv, TypeOK, ResumeTypeOK
<1>0. SavedAs(checkpoint, root) => checkpoint.next \in Int
  BY SavedHasPlace
<1>1. ASSUME NEW r \in Roots, Start(r)
      PROVE  PointIsBehind' /\ proc = "down"
  <2>1. unfinished_files' = {} /\ root' = r /\ proc = "down"
    BY <1>1 DEF Start, Begin
  <2>2. ASSUME SavedAs(checkpoint', r) PROVE checkpoint'.next <= walk_pos'
    <3>1. CASE CanResume(r)
      <4>1. checkpoint' = checkpoint /\ next_file' = checkpoint.next
        BY <1>1, <3>1 DEF Start, Begin
      <4>2. checkpoint.next \in Int
        BY <2>2, <4>1, SavedHasPlace
      <4> QED BY <1>1, <4>1, <4>2 DEF Start, NoFile
    <3>2. CASE ~ CanResume(r)
      BY <1>1, <2>2, <3>2 DEF Start, Begin, SaveAs, SavedAs, CanResume, Unloadable, NoFile
    <3> QED BY <3>1, <3>2
  <2> QED BY <2>1, <2>2 DEF PointIsBehind
<1>2. ASSUME NEW f \in Files, Walk(f)
      PROVE  PointIsBehind' /\ checkpoint' = checkpoint
  <2>1. /\ walk_pos' = f + 1 /\ f >= walk_pos /\ proc' = proc /\ proc # "down"
        /\ UNCHANGED <<root, checkpoint>> /\ unfinished_files' \subseteq unfinished_files \cup {f}
    BY <1>2 DEF Walk, CacheMiss, CacheHit, PassOver, Visit, Upcoming, AddFile,
       resume_vars, resume_memory
  <2>2. f \in Int /\ walk_pos \in Int
    BY DEF Files
  <2> QED BY <1>0, <2>1, <2>2 DEF PointIsBehind
<1>3. ASSUME NEW f \in Files, CompleteTask(f) \/ (hit = f /\ CompleteHit)
      PROVE  /\ PointIsBehind'
             /\ SavedAs(checkpoint, root) /\ SavedAs(checkpoint', root)
                  => checkpoint'.next >= checkpoint.next
  <2>1. /\ FileCompleted(f) /\ UNCHANGED <<root, proc, walk_pos>> /\ proc # "down"
        /\ unfinished_files' \subseteq unfinished_files
    BY <1>3 DEF CompleteTask, CompleteHit, FileCompleted, SafetyInv, DownIsBlank
  <2>2. CASE checkpoint' = checkpoint
    BY <1>0, <2>1, <2>2 DEF PointIsBehind
  <2>3. CASE checkpoint' # checkpoint
    BY <1>0, <2>1, <2>3, CompletionAdvances DEF PointIsBehind
  <2> QED BY <2>2, <2>3
<1>4. ASSUME FinishDiscovery
      PROVE  /\ PointIsBehind'
             /\ SavedAs(checkpoint, root) /\ SavedAs(checkpoint', root)
                  => checkpoint'.next >= checkpoint.next
  <2>1. /\ UNCHANGED <<root, walk_pos, unfinished_files>>
        /\ proc # "down" /\ proc' # "down"
    BY <1>4 DEF FinishDiscovery, DiscoveryFinished
  <2>2. CASE unfinished_files = {}
    BY <1>0, <1>4, <2>1, <2>2
    DEF FinishDiscovery, DiscoveryFinished, SaveAs, SavedAs, Unloadable, PointIsBehind
  <2>3. CASE unfinished_files # {}
    <3>1. next_file \in Smallest(unfinished_files)
      BY <2>3 DEF SafetyInv, NextIsSmallest
    <3>2. /\ next_file \in Int /\ next_file <= walk_pos
          /\ \A g \in unfinished_files : next_file <= g
          /\ SavedAs(checkpoint, root) => checkpoint.next <= next_file
      BY <2>1, <3>1, SavedIsSmallest
    <3>3. \/ checkpoint' = checkpoint \/ checkpoint' = Unloadable
          \/ checkpoint'.next = next_file
      BY <1>4, <2>3 DEF FinishDiscovery, DiscoveryFinished, SaveAs
    <3> QED BY <1>0, <2>1, <3>2, <3>3 DEF PointIsBehind, SavedAs, Unloadable
  <2> QED BY <2>2, <2>3
<1>5. ASSUME NEW f \in Files, TaskThrows(f)
      PROVE  PointIsBehind' /\ checkpoint' = checkpoint
  BY <1>5 DEF TaskThrows, PointIsBehind, SavedAs, resume_vars, resume_memory
<1>6. ASSUME Finish \/ Crash
      PROVE  PointIsBehind' /\ checkpoint' = checkpoint
  BY <1>6 DEF Finish, Crash, PointIsBehind
<1>7. CASE UNCHANGED vars
  BY <1>0, <1>7 DEF vars, resume_vars, resume_memory, scan_memory, PointIsBehind, SavedAs
<1>8. CompleteHit => hit \in Files
  BY DEF CompleteHit
<1> QED BY <1>0, <1>1, <1>2, <1>3, <1>4, <1>5, <1>6, <1>7, <1>8 DEF Next, Work

(* Under the same condition a crash never costs more than the checkpoint   *)
(* before it would have: within one process the resume point on disk only  *)
(* moves forward, over failed and torn saves too.                          *)
THEOREM ResumePointNeverMovesBack == OrdersAgree => (Spec => ResumePointAdvances)
<1> SUFFICES ASSUME OrdersAgree PROVE Spec => ResumePointAdvances
  OBVIOUS
<1>1. Init => PointIsBehind
  BY DEF Init, PointIsBehind
<1>2. TypeOK /\ SafetyInv /\ PointIsBehind /\ [Next]_vars =>
        /\ PointIsBehind'
        /\ [proc # "down" /\ SavedAs(checkpoint, root) /\ SavedAs(checkpoint', root)
              => checkpoint'.next >= checkpoint.next]_vars
  BY AdvanceStep DEF Inv
<1>3. OrdersAgree
  OBVIOUS
<1> QED BY <1>1, <1>2, <1>3, TypeCorrect, SafetyInvariant, PTL DEF Spec, ResumePointAdvances
-----------------------------------------------------------------------------
(* As long as no task throws, the unfinished files are those of the tasks  *)
(* and of the cache hit between its two calls; this needs no agreement of  *)
(* the orders.                                                             *)
Remembered == IF hit = NoFile THEN inflight ELSE inflight \cup {hit}

DrainInv ==
  /\ DownIsBlank
  /\ discovery_finished <=> proc = "draining"
  /\ proc = "draining" => hit = NoFile
  /\ \A f \in inflight : f < walk_pos
  /\ hit \notin inflight
  /\ unfinished_files = Remembered
  /\ ~SavesMayFail => DrainedMeansCompleted

(* The completion of a file, of a task or of a hit.                        *)
LEMMA CompletionDrains ==
  ASSUME TypeOK, DrainInv, NEW f \in Files,
         CompleteTask(f) \/ (hit = f /\ CompleteHit)
  PROVE  DrainInv'
<1>1. /\ FileCompleted(f) /\ UNCHANGED <<root, proc, walk_pos, discovery_finished>>
      /\ unfinished_files' = unfinished_files \ {f} /\ f \in unfinished_files
      /\ f # NoFile /\ proc # "down"
  BY DEF CompleteTask, CompleteHit, FileCompleted, DrainInv, DownIsBlank, Remembered,
         Files, NoFile
<1>2. /\ inflight' = inflight \ {f} /\ hit' = (IF hit = f THEN NoFile ELSE hit)
      /\ unfinished_files' = Remembered'
  BY <1>1 DEF CompleteTask, CompleteHit, DrainInv, Remembered
<1>3. ~SavesMayFail => DrainedMeansCompleted'
  <2> SUFFICES ASSUME ~SavesMayFail, proc' = "draining", inflight' = {}
               PROVE  checkpoint' = [status |-> "completed", root |-> root', next |-> NoFile]
    BY DEF DrainedMeansCompleted
  <2>1. unfinished_files' = {} /\ discovery_finished
    BY <1>1, <1>2 DEF DrainInv, Remembered
  <2> QED BY <1>1, <2>1 DEF FileCompleted, SaveAs
<1>4. NoFile \notin inflight /\ \A g \in inflight' : g < walk_pos'
  BY <1>1, <1>2 DEF DrainInv, TypeOK, Files, NoFile
<1> QED BY <1>1, <1>2, <1>3, <1>4 DEF DrainInv, DownIsBlank

LEMMA DrainStep ==
  ASSUME TypeOK, DrainInv, ~TasksMayThrow, [Next]_vars
  PROVE  DrainInv'
<1>0. NoFile \notin inflight /\ inflight \subseteq Files
  BY DEF TypeOK, Files, NoFile
<1>1. ASSUME NEW r \in Roots, Start(r) PROVE DrainInv'
  BY <1>0, <1>1 DEF Start, Begin, DrainInv, DownIsBlank, Remembered, DrainedMeansCompleted
<1>2. ASSUME NEW f \in Files, Walk(f) PROVE DrainInv'
  <2>1. /\ proc = "walking" /\ proc' = "walking" /\ hit = NoFile /\ f # NoFile
        /\ walk_pos' = f + 1 /\ f >= walk_pos /\ discovery_finished' = discovery_finished
    BY <1>2 DEF Walk, CacheMiss, CacheHit, PassOver, Visit, Upcoming, AddFile,
       resume_vars, resume_memory, Files, NoFile
  <2>2. f \in Int /\ walk_pos \in Int /\ \A g \in inflight : g \in Int /\ g < walk_pos
    BY DEF Files, TypeOK, DrainInv
  <2>3. f \notin inflight /\ f < walk_pos' /\ \A g \in inflight : g < walk_pos'
    BY <2>1, <2>2
  <2>4. \/ /\ inflight' = inflight \cup {f} /\ hit' = NoFile
           /\ unfinished_files' = unfinished_files \cup {f}
        \/ /\ inflight' = inflight /\ hit' = f
           /\ unfinished_files' = unfinished_files \cup {f}
        \/ inflight' = inflight /\ hit' = NoFile /\ unfinished_files' = unfinished_files
    BY <1>2, <2>1 DEF Walk, CacheMiss, CacheHit, PassOver, AddFile, resume_vars, resume_memory
  <2> QED BY <1>0, <2>1, <2>3, <2>4
      DEF DrainInv, DownIsBlank, Remembered, DrainedMeansCompleted
<1>3. CASE (\E f \in Files : CompleteTask(f)) \/ CompleteHit
  <2>1. CompleteHit => hit \in Files
    BY DEF CompleteHit, TypeOK
  <2> QED BY <1>3, <2>1, CompletionDrains
<1>4. CASE FinishDiscovery
  <2>1. /\ discovery_finished' /\ proc' = "draining" /\ hit = NoFile
        /\ UNCHANGED <<root, unfinished_files, inflight, hit, walk_pos>>
    BY <1>4 DEF FinishDiscovery, DiscoveryFinished
  <2>2. ~SavesMayFail => DrainedMeansCompleted'
    BY <1>4, <2>1
    DEF FinishDiscovery, DiscoveryFinished, SaveAs, DrainInv, Remembered,
        DrainedMeansCompleted
  <2> QED BY <2>1, <2>2 DEF DrainInv, DownIsBlank, Remembered
<1>5. CASE Finish \/ Crash
  <2>1. /\ proc' = "down" /\ hit' = NoFile /\ inflight' = {}
        /\ unfinished_files' = {} /\ ~discovery_finished'
    BY <1>5 DEF Finish, Crash, ResumeMemoryLost, DrainInv
  <2> QED BY <2>1 DEF DrainInv, DownIsBlank, Remembered, DrainedMeansCompleted
<1>6. CASE UNCHANGED vars
  BY <1>6 DEF vars, resume_vars, resume_memory, scan_memory, DrainInv, DownIsBlank,
     Remembered, DrainedMeansCompleted
<1> QED BY <1>1, <1>2, <1>3, <1>4, <1>5, <1>6 DEF Next, Work, TaskThrows

LEMMA DrainInit == Init => DrainInv
BY DEF Init, DrainInv, DownIsBlank, Remembered, DrainedMeansCompleted

LEMMA DrainInvariant == ~TasksMayThrow => (Spec => []DrainInv)
<1> SUFFICES ASSUME ~TasksMayThrow PROVE Spec => []DrainInv
  OBVIOUS
<1>1. TypeOK /\ DrainInv /\ [Next]_vars => DrainInv'
  BY DrainStep
<1> QED BY <1>1, DrainInit, TypeCorrect, PTL DEF Spec

(* Where saves succeed and no task throws, a process whose tasks have all  *)
(* ended leaves a completed checkpoint, in whatever order walker and       *)
(* workers enter the critical sections of the ResumeManager.               *)
THEOREM DrainedIsCompleted ==
  ~SavesMayFail /\ ~TasksMayThrow => (Spec => []DrainedMeansCompleted)
<1> SUFFICES ASSUME ~SavesMayFail /\ ~TasksMayThrow PROVE Spec => []DrainedMeansCompleted
  OBVIOUS
<1>1. DrainInv => DrainedMeansCompleted
  BY DEF DrainInv
<1>2. ~TasksMayThrow
  OBVIOUS
<1> QED BY <1>1, <1>2, DrainInvariant, PTL
=============================================================================
