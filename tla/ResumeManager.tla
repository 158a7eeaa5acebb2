--------------------------- MODULE ResumeManager ---------------------------
(***************************************************************************)
(* The operations of class ResumeManager (Resume/ResumeManager.cpp), each  *)
(* a critical section of its mutex_.                                       *)
(*                                                                         *)
(* A file is its position in the walker's depth-first order.  Key gives    *)
(* its position in the order of std::set<std::string>, which compares      *)
(* whole paths (module PathOrder).                                         *)
(***************************************************************************)
EXTENDS Integers

CONSTANTS
  NFiles,              \* files are numbered 1..NFiles in walking order
  Key,                 \* rank of a file's path as a string
  Roots,               \* scan roots
  CheckpointInterval,  \* kCheckpointInterval
  SavesMayFail         \* whether writing the checkpoint file can fail

Files == 1 .. NFiles
NoFile == 0            \* the empty path

ASSUME ResumeAssumption ==
  /\ NFiles \in Nat
  /\ Key \in [Files -> Nat]
  /\ \A f, g \in Files : Key[f] = Key[g] => f = g
  /\ CheckpointInterval \in Nat \ {0}
  /\ SavesMayFail \in BOOLEAN

VARIABLES
  root,                \* root_
  unfinished_files,    \* files handed out and not completed
  next_file,           \* next_file_, the resume point
  discovery_finished,  \* discovery_finished_
  since_last_save,     \* since_last_save_
  checkpoint           \* the checkpoint file on disk

resume_memory ==
  <<root, unfinished_files, next_file, discovery_finished, since_last_save>>
resume_vars == <<resume_memory, checkpoint>>

Checkpoints ==
  [status : {"running", "completed"}, root : Roots, next : Files \cup {NoFile}]

(* No file, or one that load() cannot read three lines from.               *)
Unloadable == [status |-> "unloadable"]

ResumeTypeOK ==
  /\ root \in Roots
  /\ unfinished_files \subseteq Files
  /\ next_file \in Files \cup {NoFile}
  /\ discovery_finished \in BOOLEAN
  /\ since_last_save \in 0 .. CheckpointInterval
  /\ checkpoint \in Checkpoints \cup {Unloadable}

(* Mutant: the end of the set instead of its beginning.                    *)
Largest(S) == {f \in S : \A g \in S : Key[f] >= Key[g]}

(* *unfinished_files_.begin(), as the set of candidates.                   *)
Smallest(S) == {f \in S : \A g \in S : Key[f] <= Key[g]}

(***************************************************************************)
(* save(): write a temporary file, then rename it.  A crash leaves the old *)
(* or the new file.  A failed open or rename keeps the old one and the     *)
(* counter; a failed write goes unnoticed, because the stream is not       *)
(* checked, and an empty file is renamed into place.                       *)
(***************************************************************************)
SaveAs(status, r, next, since) ==
  \/ /\ checkpoint' = [status |-> status, root |-> r, next |-> next]
     /\ since_last_save' = 0
  \/ /\ SavesMayFail
     /\ checkpoint' = checkpoint
     /\ since_last_save' = since
  \/ /\ SavesMayFail
     /\ checkpoint' = Unloadable
     /\ since_last_save' = 0

(* maybeSave("running"): write once every CheckpointInterval completions.  *)
(* A failed save is retried at the next completion: the counter stays at   *)
(* or above the interval (capped here, the code only compares it).         *)
MaybeSave(next) ==
  IF since_last_save + 1 < CheckpointInterval
  THEN /\ since_last_save' = since_last_save + 1
       /\ UNCHANGED checkpoint
  ELSE SaveAs("running", root, next, CheckpointInterval)

(* The condition under which begin(r) resumes.                             *)
CanResume(r) == checkpoint.status = "running" /\ checkpoint.root = r

Begin(r) ==
  /\ root' = r
  /\ unfinished_files' = {}
  /\ discovery_finished' = FALSE
  /\ \/ /\ CanResume(r)
        /\ next_file' = checkpoint.next
        /\ since_last_save' = 0
        /\ UNCHANGED checkpoint
     \/ /\ ~CanResume(r)
        /\ next_file' = NoFile
        /\ SaveAs("running", r, NoFile, 0)

(* Mutant: the file handed out last becomes the resume point.              *)
AddFileAsNext(f) ==
  /\ unfinished_files' = unfinished_files \cup {f}
  /\ next_file' = f
  /\ UNCHANGED <<root, discovery_finished, since_last_save, checkpoint>>

AddFile(f) ==
  /\ unfinished_files' = unfinished_files \cup {f}
  /\ next_file' \in Smallest(unfinished_files')
  /\ UNCHANGED <<root, discovery_finished, since_last_save, checkpoint>>

(* Mutant: an empty set completes the scan although discovery goes on.     *)
FileCompletedTooSoon(f) ==
  /\ unfinished_files' = unfinished_files \ {f}
  /\ UNCHANGED <<root, discovery_finished>>
  /\ IF unfinished_files' # {}
     THEN next_file' \in Smallest(unfinished_files') /\ MaybeSave(next_file')
     ELSE next_file' = NoFile /\ SaveAs("completed", root, NoFile, since_last_save)

(* The last unfinished file completes the scan when discovery is over;     *)
(* before that nothing is saved, and next_file_ keeps its old value.       *)
FileCompleted(f) ==
  /\ unfinished_files' = unfinished_files \ {f}
  /\ UNCHANGED <<root, discovery_finished>>
  /\ \/ /\ unfinished_files' # {}
        /\ next_file' \in Smallest(unfinished_files')
        /\ MaybeSave(next_file')
     \/ /\ unfinished_files' = {}
        /\ discovery_finished
        /\ next_file' = NoFile
        /\ SaveAs("completed", root, NoFile, since_last_save)
     \/ /\ unfinished_files' = {}
        /\ ~discovery_finished
        /\ UNCHANGED <<next_file, since_last_save, checkpoint>>

(* Mutant: the last file may have been completed before discovery ended.   *)
DiscoveryFinishedStillRunning ==
  /\ discovery_finished' = TRUE
  /\ UNCHANGED <<root, unfinished_files, next_file>>
  /\ SaveAs("running", root, next_file, since_last_save)

DiscoveryFinished ==
  /\ discovery_finished' = TRUE
  /\ UNCHANGED <<root, unfinished_files>>
  /\ \/ /\ unfinished_files = {}
        /\ next_file' = NoFile
        /\ SaveAs("completed", root, NoFile, since_last_save)
     \/ /\ unfinished_files # {}
        /\ next_file' = next_file
        /\ SaveAs("running", root, next_file, since_last_save)

(* The memory of a process that has not started, or is gone.               *)
ResumeMemoryLost ==
  /\ \E r \in Roots : root' = r
  /\ unfinished_files' = {}
  /\ next_file' = NoFile
  /\ discovery_finished' = FALSE
  /\ since_last_save' = 0
=============================================================================
