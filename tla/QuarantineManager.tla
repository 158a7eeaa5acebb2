------------------------ MODULE QuarantineManager ------------------------
(***************************************************************************)
(* Quarantine: class QuarantineManager over its repository (metadata.json) *)
(* and its file operations, used by processes that scan and by processes   *)
(* that run one quarantine command; Application starts and ends them.      *)
(*                                                                         *)
(* The mutex makes the operations of one process sequential, so a process  *)
(* is one thread here; what can come between its steps is another process, *)
(* which shares only the disk, and a crash.  The steps are the single      *)
(* effects on the disk: a file moved, a file removed, a metadata save.     *)
(***************************************************************************)
EXTENDS Integers, FiniteSets

CONSTANTS
  Procs,            \* av processes
  Malware,          \* malicious files
  Home,             \* the path where each of them lives
  Extension,        \* of each of these paths
  Ids,              \* what generateId can draw
  None,             \* no file, no record
  Unencodable,      \* files whose path or signatures are not UTF-8
  LoadsMayFail,     \* load() returns false although metadata.json is good
  ExaminationsMayFail,  \* exists() reports an error, not an answer
  MovesMayFail,     \* a copy across filesystems whose source stays behind
  SavesMayFail,     \* save() returns false
  WritesMayTear,    \* save() renames a file whose write had failed
  MayCrash

Paths == {Home[m] : m \in Malware}

(* A record, and the file it was made for.                                 *)
Records == [id : Ids, original_path : Paths, file : Malware]

(* "<id><ext>", and where the file of a record is.                         *)
Destination(id, path) == <<id, Extension[path]>>
Destinations == {Destination(id, path) : id \in Ids, path \in Paths}
quarantine_path(e) == Destination(e.id, e.original_path)

ASSUME QuarantineAssumption ==
  /\ Unencodable \subseteq Malware
  /\ None \notin Malware \cup Records
  /\ {LoadsMayFail, ExaminationsMayFail, MovesMayFail, SavesMayFail, WritesMayTear,
      MayCrash} \subseteq BOOLEAN

VARIABLES
  original,       \* what lies at each original path
  files,          \* what lies at each destination in quarantine
  metadata,       \* metadata.json
  entries,        \* entries_ of each process
  pc,             \* where each process is
  entry,          \* the record it has in hand
  command,        \* the quarantine command that it runs
  asked,          \* the records that the command is about,
  todo,           \* ... those still to be restored,
  all_ok,         \* ... and whether none has failed so far
  hindered,       \* commands beside which another process has run, or that
                  \* could not see metadata.json
  born,           \* files that have existed
  deleted,        \* files that the user deleted from quarantine
  overwritten,    \* files that another was moved over, at their path
  disturbed       \* whether more than a save or a move has ever gone wrong

disk == <<original, files, metadata>>
job == <<command, asked, todo, all_ok, hindered>>
memory == <<entries, pc, entry, job>>
history == <<born, deleted, overwritten, disturbed>>
vars == <<disk, memory, history>>

(* "succeeded" has ended with exit code 0; "down" has ended with another,  *)
(* was killed, or has not run.                                             *)
Ended == {"down", "succeeded"}
States == Ended \cup {"scanning", "moved", "restoring", "checked", "removing",
                    "saving", "saved"}
Commands == {"none", "Restore", "RestoreAll", "Delete"}

TypeOK ==
  /\ original \in [Paths -> Malware \cup {None}]
  /\ files \in [Destinations -> Malware \cup {None}]
  /\ metadata.readable \in BOOLEAN /\ metadata.entries \subseteq Records
  /\ entries \in [Procs -> SUBSET Records]
  /\ pc \in [Procs -> States]
  /\ entry \in [Procs -> Records \cup {None}]
  /\ command \in [Procs -> Commands]
  /\ asked \in [Procs -> SUBSET Records]
  /\ todo \in [Procs -> SUBSET Records] /\ \A p \in Procs : todo[p] \subseteq asked[p]
  /\ all_ok \in [Procs -> BOOLEAN]
  /\ hindered \subseteq Procs
  /\ born \subseteq Malware /\ deleted \cup overwritten \subseteq born
  /\ disturbed \in BOOLEAN

Init ==
  /\ original = [path \in Paths |-> None]
  /\ files = [destination \in Destinations |-> None]
  /\ metadata = [readable |-> TRUE, entries |-> {}]
  /\ entries = [p \in Procs |-> {}]
  /\ pc = [p \in Procs |-> "down"]
  /\ entry = [p \in Procs |-> None]
  /\ command = [p \in Procs |-> "none"]
  /\ asked = [p \in Procs |-> {}]
  /\ todo = [p \in Procs |-> {}]
  /\ all_ok = [p \in Procs |-> TRUE]
  /\ hindered = {}
  /\ born = {}
  /\ deleted = {}
  /\ overwritten = {}
  /\ disturbed = FALSE

Goes(p, from, to) == pc[p] = from /\ pc' = [pc EXCEPT ![p] = to]

(* The end of a process, and of the objects it had.                        *)
Exit(p, how) ==
  /\ pc' = [pc EXCEPT ![p] = how]
  /\ entries' = [entries EXCEPT ![p] = {}]
  /\ entry' = [entry EXCEPT ![p] = None]
  /\ command' = [command EXCEPT ![p] = "none"]
  /\ asked' = [asked EXCEPT ![p] = {}]
  /\ todo' = [todo EXCEPT ![p] = {}]
  /\ all_ok' = [all_ok EXCEPT ![p] = TRUE]
  /\ hindered' = hindered \ {p}

Disturbs(happens) == disturbed' = (disturbed \/ happens)

(* A file appears at its path.                                             *)
Appears(m) ==
  /\ m \notin born
  /\ original[Home[m]] = None
  /\ original' = [original EXCEPT ![Home[m]] = m]
  /\ born' = born \cup {m}
  /\ UNCHANGED <<files, metadata, memory, deleted, overwritten, disturbed>>

(* moveFile() back: rename() goes over what lies there, the copy across    *)
(* filesystems does not, and its source may stay behind.                   *)
MovedBack(e) ==
  LET f == files[quarantine_path(e)]
  IN  /\ f # None
      /\ original' = [original EXCEPT ![e.original_path] = f]
      /\ overwritten' = overwritten \cup ({original[e.original_path]} \ {None, f})
      /\ files' = [files EXCEPT ![quarantine_path(e)] = None]

NotMovedBack(e) ==
  LET f == files[quarantine_path(e)]
  IN  \/ /\ f = None \/ MovesMayFail
         /\ UNCHANGED <<original, files, overwritten>>
      \/ /\ f # None /\ original[e.original_path] = None
         /\ MovesMayFail
         /\ original' = [original EXCEPT ![e.original_path] = f]
         /\ UNCHANGED <<files, overwritten>>

(* load() returns false, or true with no records when it cannot tell       *)
(* whether there is a metadata.json.                                       *)
CannotLoad == ~metadata.readable \/ LoadsMayFail
CannotSee == ExaminationsMayFail

Loads(records) ==
  \/ metadata.readable /\ records = metadata.entries
  \/ CannotSee /\ records = {}

(* What starts while another process runs may undo what that one records.  *)
Overlaps(p) == \E q \in Procs \ {p} : pc[q] \notin Ended

(* The commands that run.                                                  *)
AtWork(p) == pc[p] \notin Ended \cup {"scanning", "moved"}
Commanding == {p \in Procs : AtWork(p)}

(* A scan ignores the result and goes on with whatever it has loaded.      *)
LoadForScan(p) ==
  /\ pc[p] \in Ended
  /\ pc' = [pc EXCEPT ![p] = "scanning"]
  /\ \E loaded \in {metadata.entries, {}} :
       /\ Loads(loaded) \/ (CannotLoad /\ loaded = {})
       /\ entries' = [entries EXCEPT ![p] = loaded]
       /\ Disturbs(Overlaps(p) \/ ~metadata.readable \/ loaded # metadata.entries)
  /\ hindered' = hindered \cup Commanding
  /\ UNCHANGED <<disk, entry, command, asked, todo, all_ok, born, deleted, overwritten>>

(* The start of a command about some of the records on disk, of which it   *)
(* has loaded all, or none that it could see.                              *)
Takes(p, what, records, loaded, to) ==
  /\ pc' = [pc EXCEPT ![p] = to]
  /\ entries' = [entries EXCEPT ![p] = loaded]
  /\ command' = [command EXCEPT ![p] = what]
  /\ asked' = [asked EXCEPT ![p] = records]
  /\ Disturbs(Overlaps(p) \/ loaded # metadata.entries)
  /\ hindered' = hindered \cup Commanding
                 \cup (IF Overlaps(p) \/ loaded # metadata.entries THEN {p} ELSE {})
  /\ UNCHANGED <<disk, entry, all_ok, born, deleted, overwritten>>

(***************************************************************************)
(* save(): the records are encoded before anything is written, and the     *)
(* encoder throws on text that is not UTF-8.                               *)
(***************************************************************************)
Encodable(records) == \A e \in records : e.file \notin Unencodable

SaveSucceeds(records) ==
  /\ Encodable(records)
  /\ \/ metadata' = [readable |-> TRUE, entries |-> records]
     \/ WritesMayTear /\ metadata' = [readable |-> FALSE, entries |-> {}]

SaveFails(records) ==
  Encodable(records) /\ SavesMayFail /\ metadata' = metadata

(* Mutant: the id is looked for in the records.                            *)
NewIdOfRecords(id, path) == \A e \in metadata.entries : e.id # id

(* reserveDestination(): the only check on what generateId() draws.        *)
NewId(id, path) == files[Destination(id, path)] = None

(* An id is drawn that a record has: of a file with another extension, or  *)
(* of one that is no longer in quarantine.                                 *)
Repeats(p, id) == \E e \in metadata.entries \cup entries[p] : e.id = id

(* quarantine(), first half: the file is moved under a new id.  Across     *)
(* filesystems it may be copied and yet stay; then the call fails.         *)
MoveIn(p, path, id) ==
  /\ pc[p] = "scanning"
  /\ original[path] # None
  /\ NewId(id, path)
  /\ files' = [files EXCEPT ![Destination(id, path)] = original[path]]
  /\ \/ /\ original' = [original EXCEPT ![path] = None]
        /\ pc' = [pc EXCEPT ![p] = "moved"]
        /\ entry' = [entry EXCEPT ![p] =
             [id |-> id, original_path |-> path, file |-> original[path]]]
     \/ /\ MovesMayFail
        /\ UNCHANGED <<original, pc, entry>>
  /\ Disturbs(Repeats(p, id))
  /\ UNCHANGED <<metadata, entries, job, born, deleted, overwritten>>

(* removeById()                                                            *)
DropId(p, id) == entries' = [entries EXCEPT ![p] = {r \in @ : r.id # id}]

(* quarantine(), second half: record it ...                                *)
Record(p) ==
  LET records == entries[p] \cup {entry[p]}
  IN  /\ Goes(p, "moved", "scanning")
      /\ SaveSucceeds(records)
      /\ entries' = [entries EXCEPT ![p] = records]
      /\ entry' = [entry EXCEPT ![p] = None]
      /\ Disturbs(~metadata'.readable)
      /\ UNCHANGED <<original, files, job, born, deleted, overwritten>>

(* Mutant: the file is not moved back.                                     *)
RollBackRecordOnly(p) ==
  /\ Goes(p, "moved", "scanning")
  /\ SaveFails(entries[p] \cup {entry[p]})
  /\ DropId(p, entry[p].id)
  /\ entry' = [entry EXCEPT ![p] = None]
  /\ UNCHANGED <<disk, job, history>>

(* ... or roll the move back, which may fail in its turn ...               *)
RollBack(p) ==
  LET e == entry[p]
  IN  /\ Goes(p, "moved", "scanning")
      /\ SaveFails(entries[p] \cup {e})
      /\ \/ MovedBack(e) /\ UNCHANGED disturbed
         \/ NotMovedBack(e) /\ Disturbs(TRUE)
      /\ DropId(p, e.id)
      /\ entry' = [entry EXCEPT ![p] = None]
      /\ UNCHANGED <<job, born, deleted>>

(* ... or leave by the encoder's exception, which the pool swallows.       *)
RecordThrows(p) ==
  LET records == entries[p] \cup {entry[p]}
  IN  /\ Goes(p, "moved", "scanning")
      /\ ~Encodable(records)
      /\ entries' = [entries EXCEPT ![p] = records]
      /\ entry' = [entry EXCEPT ![p] = None]
      /\ Disturbs(TRUE)
      /\ UNCHANGED <<disk, job, born, deleted, overwritten>>

(* find() returns a record of the id, if there is one.                     *)
Find(records, id) == {e \in records : e.id = id}

(* restore() and restoreAll(), which is about every record on disk.        *)
Restore(p, id, loaded) ==
  IF Find(loaded, id) = {} THEN Exit(p, "down") /\ UNCHANGED <<disk, history>>
  ELSE \E e \in Find(loaded, id) :
         /\ Takes(p, "Restore", {e}, loaded, "restoring")
         /\ todo' = [todo EXCEPT ![p] = {e}]

RestoreAll(p, loaded) ==
  /\ Takes(p, "RestoreAll", metadata.entries, loaded, "restoring")
  /\ todo' = [todo EXCEPT ![p] = loaded]

(* restoreOne() looks the id up, which restore() has done by now.          *)
Found(p, e) == IF command[p] = "RestoreAll" THEN Find(entries[p], e.id) ELSE {e}

(* The original path must not be seen to be taken ...                      *)
PathIsFree(p) ==
  /\ Goes(p, "restoring", "checked")
  /\ \E e \in todo[p] : \E found \in Found(p, e) :
       /\ original[found.original_path] = None \/ CannotSee
       /\ entry' = [entry EXCEPT ![p] = found]
       /\ todo' = [todo EXCEPT ![p] = @ \ {e}]
  /\ UNCHANGED <<disk, entries, command, asked, all_ok, hindered, history>>

(* Mutant: restoreAll() forgets the failure.                               *)
RestoreFailsForgotten(p, left) ==
  IF command[p] = "RestoreAll"
  THEN /\ pc' = [pc EXCEPT ![p] = "restoring"]
       /\ entry' = [entry EXCEPT ![p] = None]
       /\ todo' = [todo EXCEPT ![p] = left]
       /\ UNCHANGED <<entries, command, asked, all_ok, hindered>>
  ELSE Exit(p, "down")

(* A failure ends restore() unsaved; restoreAll() goes on with the rest.   *)
RestoreFails(p, left) ==
  IF command[p] = "RestoreAll"
  THEN /\ pc' = [pc EXCEPT ![p] = "restoring"]
       /\ entry' = [entry EXCEPT ![p] = None]
       /\ todo' = [todo EXCEPT ![p] = left]
       /\ all_ok' = [all_ok EXCEPT ![p] = FALSE]
       /\ UNCHANGED <<entries, command, asked, hindered>>
  ELSE Exit(p, "down")

PathIsTaken(p) ==
  /\ pc[p] = "restoring"
  /\ \E e \in todo[p] : \E found \in Found(p, e) :
       /\ original[found.original_path] # None
       /\ RestoreFails(p, todo[p] \ {e})
  /\ UNCHANGED <<disk, history>>

(* The record went with another one of the same id.                        *)
NotFound(p) ==
  /\ pc[p] = "restoring"
  /\ \E e \in todo[p] : Found(p, e) = {} /\ RestoreFails(p, todo[p] \ {e})
  /\ UNCHANGED <<disk, history>>

(* ... then the file is moved back, over whatever is there by now.         *)
MoveOut(p) ==
  LET e == entry[p]
  IN  /\ Goes(p, "checked", "restoring")
      /\ MovedBack(e)
      /\ DropId(p, e.id)
      /\ entry' = [entry EXCEPT ![p] = None]
      /\ UNCHANGED <<metadata, job, born, deleted, disturbed>>

MoveOutFails(p) ==
  /\ pc[p] = "checked"
  /\ NotMovedBack(entry[p])
  /\ RestoreFails(p, todo[p])
  /\ UNCHANGED <<metadata, born, deleted, disturbed>>

RestoreDone(p) ==
  /\ todo[p] = {}
  /\ Goes(p, "restoring", "saving")
  /\ UNCHANGED <<disk, entries, entry, job, history>>

(* remove()                                                                *)
Remove(p, id, loaded) ==
  IF Find(loaded, id) = {} THEN Exit(p, "down") /\ UNCHANGED <<disk, history>>
  ELSE /\ \E e \in Find(loaded, id) : Takes(p, "Delete", {e}, loaded, "removing")
       /\ UNCHANGED todo

(* Mutant: a file that is gone already is not told apart.                  *)
RemoveOneUnchecked(p) ==
  /\ Goes(p, "removing", "saving")
  /\ \E e \in asked[p] :
       /\ files' = [files EXCEPT ![quarantine_path(e)] = None]
       /\ deleted' = deleted \cup {files[quarantine_path(e)]}
       /\ DropId(p, e.id)
  /\ UNCHANGED <<original, metadata, entry, job, born, overwritten, disturbed>>

(* removeOne(): a file that is gone already counts as removed.             *)
RemoveOne(p) ==
  /\ Goes(p, "removing", "saving")
  /\ \E e \in asked[p] :
       /\ files' = [files EXCEPT ![quarantine_path(e)] = None]
       /\ deleted' = deleted \cup ({files[quarantine_path(e)]} \ {None})
       /\ DropId(p, e.id)
  /\ UNCHANGED <<original, metadata, entry, job, born, overwritten, disturbed>>

RemoveOneFails(p) ==
  /\ MovesMayFail
  /\ pc[p] = "removing"
  /\ Exit(p, "down")
  /\ UNCHANGED <<disk, history>>

(* A command saves once, ...                                               *)
Save(p) ==
  /\ Goes(p, "saving", "saved")
  /\ \/ SaveSucceeds(entries[p]) /\ UNCHANGED all_ok
     \/ SaveFails(entries[p]) /\ all_ok' = [all_ok EXCEPT ![p] = FALSE]
  /\ Disturbs(~metadata'.readable)
  /\ UNCHANGED <<original, files, entries, entry, command, asked, todo, hindered,
                 born, deleted, overwritten>>

(* ... and its result becomes the exit code.                               *)
Return(p) ==
  /\ pc[p] = "saved"
  /\ Exit(p, IF all_ok[p] THEN "succeeded" ELSE "down")
  /\ UNCHANGED <<disk, history>>

(* The end of a scan.                                                      *)
EndScan(p) ==
  /\ pc[p] = "scanning"
  /\ Exit(p, "succeeded")
  /\ UNCHANGED <<disk, history>>

Crash(p) ==
  /\ MayCrash
  /\ pc[p] \notin Ended
  /\ Exit(p, "down")
  /\ Disturbs(TRUE)
  /\ UNCHANGED <<disk, born, deleted, overwritten>>

Operations ==
  \/ \E m \in Malware : Appears(m)
  \/ \E p \in Procs :
       \/ \E path \in Paths, id \in Ids : MoveIn(p, path, id)
       \/ Record(p) \/ RollBack(p) \/ RecordThrows(p)
       \/ PathIsFree(p) \/ PathIsTaken(p) \/ NotFound(p)
       \/ MoveOut(p) \/ MoveOutFails(p) \/ RestoreDone(p)
       \/ RemoveOne(p) \/ RemoveOneFails(p)
       \/ Save(p) \/ Return(p) \/ EndScan(p) \/ Crash(p)
-----------------------------------------------------------------------------
InPlace(m) == \E path \in Paths : original[path] = m
Captive(m) == \E destination \in Destinations : files[destination] = m

(* No content vanishes: a file that the user did not delete, and that no   *)
(* file was moved over, is at its path or in quarantine, whatever fails or *)
(* crashes between the steps of whichever process.                         *)
NothingVanishes == \A m \in born \ (deleted \cup overwritten) : InPlace(m) \/ Captive(m)

(* No file is lost in quarantine: whenever nothing is under way, a file    *)
(* that is not at its path has a record on disk that leads to it           *)
(* (QuarantineManager.cpp:77 "so the file is not lost with no metadata     *)
(* record").                                                               *)
AtRest == \A p \in Procs : pc[p] \in Ended \cup {"scanning"}
Recorded(m) == \E e \in metadata.entries : files[quarantine_path(e)] = m

NotLost == AtRest => \A m \in born \ (deleted \cup overwritten) : InPlace(m) \/ Recorded(m)

(* It takes more than failing saves and moves to lose one: a crash, a torn *)
(* write, a load or a roll-back that fails, a metadata.json that is not    *)
(* seen, an exception of the encoder, an id that is drawn again while a    *)
(* record has it, or two processes at a time.                              *)
LostOnlyIfDisturbed == ~disturbed => NotLost

(* The exit code is the contract (tests/test_04): when a command exits     *)
(* with 0, no file is left in quarantine for any of the records that it    *)
(* was asked about, which for restore-all are all those on disk, and none  *)
(* of their ids is listed any more, whatever failed on the way and however *)
(* often ids repeat; unless another process ran beside it, or exists()     *)
(* could not tell it whether there is a metadata.json, which load() takes  *)
(* for an empty quarantine (QuarantineRepository.cpp:23).                  *)
ExitCodeIsContract ==
  [][\A p \in Procs \ hindered : pc[p] # "succeeded" /\ pc'[p] = "succeeded" =>
       \A e \in asked[p] :
         /\ files'[quarantine_path(e)] = None
         /\ \A r \in metadata'.entries : r.id # e.id]_vars
=============================================================================
