-------------------------- MODULE QuarantineProofs --------------------------
(***************************************************************************)
(* Proofs about the quarantine and the processes that use it, for every    *)
(* number of processes, files and ids.  Every fault may be switched on,    *)
(* except where a theorem names one that must be off.                      *)
(***************************************************************************)
EXTENDS Application, TLAPS

(* What the variables of a process are, by where the process is.           *)
ProcessInv ==
  \A p \in Procs :
    /\ entry[p] # None <=> pc[p] \in {"moved", "checked"}
    /\ pc[p] \in Ended \cup {"scanning", "moved"} => asked[p] = {}
    /\ pc[p] \in {"removing", "saving", "saved"} => todo[p] = {}
    /\ pc[p] = "removing" => \A d, e \in asked[p] : d = e

MemoryInv ==
  /\ entries \in [Procs -> SUBSET Records]
  /\ pc \in [Procs -> States]
  /\ entry \in [Procs -> Records \cup {None}]
  /\ command \in [Procs -> Commands]
  /\ asked \in [Procs -> SUBSET Records]
  /\ todo \in [Procs -> SUBSET Records]
  /\ \A p \in Procs : todo[p] \subseteq asked[p]
  /\ all_ok \in [Procs -> BOOLEAN]
  /\ hindered \subseteq Procs
  /\ ProcessInv

(* What lies on the disk, and that it has been born.                       *)
DiskInv ==
  /\ original \in [Paths -> Malware \cup {None}]
  /\ files \in [Destinations -> Malware \cup {None}]
  /\ metadata.readable \in BOOLEAN /\ metadata.entries \subseteq Records
  /\ born \subseteq Malware /\ deleted \cup overwritten \subseteq born
  /\ disturbed \in BOOLEAN
  /\ \A path \in Paths : original[path] \in born \cup {None}
  /\ \A destination \in Destinations : files[destination] \in born \cup {None}

Inv == MemoryInv /\ DiskInv

(* Where the file of a record is and was.                                  *)
LEMMA RecordPlaces ==
  ASSUME NEW e \in Records
  PROVE  /\ e.id \in Ids /\ e.original_path \in Paths
         /\ quarantine_path(e) \in Destinations /\ e # None
<1>1. e.id \in Ids /\ e.original_path \in Paths
  BY DEF Records
<1> QED BY <1>1, QuarantineAssumption DEF quarantine_path, Destinations
-----------------------------------------------------------------------------
(* How a command begins, and how a process ends without touching the disk. *)
Begins(p) ==
  /\ pc[p] \in Ended
  /\ \E loaded \in SUBSET metadata.entries :
       /\ Loads(loaded)
       /\ \/ RestoreAll(p, loaded)
          \/ \E e \in loaded : /\ Takes(p, "Restore", {e}, loaded, "restoring")
                               /\ todo' = [todo EXCEPT ![p] = {e}]
          \/ \E e \in loaded : /\ Takes(p, "Delete", {e}, loaded, "removing")
                               /\ UNCHANGED todo

Quits(p) ==
  /\ \E how \in Ended : Exit(p, how)
  /\ UNCHANGED disk

(* Whatever the arguments are, the program scans, begins a command about   *)
(* records that are on disk, or ends.                                      *)
LEMMA RunSteps ==
  ASSUME NEW p \in Procs, NEW argv \in Arguments, Run(p, argv)
  PROVE  \/ LoadForScan(p) \/ Begins(p)
         \/ Quits(p) /\ pc[p] \in Ended /\ UNCHANGED history
<1>1. ASSUME NEW how \in Ended, Says(p, how) PROVE Quits(p) /\ UNCHANGED history
  BY <1>1 DEF Says, Quits
<1>2. pc[p] \in Ended
  BY DEF Run
<1> DEFINE Goal == Begins(p) \/ (Quits(p) /\ UNCHANGED history)
<1>3. ASSUME NEW loaded \in {metadata.entries, {}}, Loads(loaded),
             \/ Restore(p, argv[2], loaded) \/ RestoreAll(p, loaded)
             \/ Remove(p, argv[2], loaded)
      PROVE  Goal
  <2>1. loaded \in SUBSET metadata.entries
    OBVIOUS
  <2>2. CASE RestoreAll(p, loaded)
    BY <1>2, <1>3, <2>1, <2>2 DEF Begins
  <2>3. ASSUME Exit(p, "down"), UNCHANGED <<disk, history>> PROVE Goal
    BY <2>3 DEF Quits, Ended
  <2>4. CASE Restore(p, argv[2], loaded)
    <3>1. CASE Find(loaded, argv[2]) = {}
      BY <2>3, <2>4, <3>1 DEF Restore
    <3>2. CASE Find(loaded, argv[2]) # {}
      <4>1. PICK e \in Find(loaded, argv[2]) :
              /\ Takes(p, "Restore", {e}, loaded, "restoring")
              /\ todo' = [todo EXCEPT ![p] = {e}]
        BY <2>4, <3>2 DEF Restore
      <4>2. e \in loaded
        BY DEF Find
      <4> QED BY <1>2, <1>3, <2>1, <4>1, <4>2 DEF Begins
    <3> QED BY <3>1, <3>2
  <2>5. CASE Remove(p, argv[2], loaded)
    <3>1. CASE Find(loaded, argv[2]) = {}
      BY <2>3, <2>5, <3>1 DEF Remove
    <3>2. CASE Find(loaded, argv[2]) # {}
      <4>1. PICK e \in Find(loaded, argv[2]) :
              Takes(p, "Delete", {e}, loaded, "removing") /\ UNCHANGED todo
        BY <2>5, <3>2 DEF Remove
      <4>2. e \in loaded
        BY DEF Find
      <4> QED BY <1>2, <1>3, <2>1, <4>1, <4>2 DEF Begins
    <3> QED BY <3>1, <3>2
  <2> QED BY <1>3, <2>2, <2>4, <2>5
<1> HIDE DEF Goal
<1>4. ASSUME NEW what, RunQuarantine(p, what, argv) PROVE Goal
  <2>1. CASE Says(p, "down") \/ Says(p, "succeeded")
    BY <1>1, <2>1 DEF Ended, Goal
  <2>2. CASE ~(Says(p, "down") \/ Says(p, "succeeded"))
    BY <1>3, <1>4, <2>2 DEF RunQuarantine
  <2> QED BY <2>1, <2>2
<1> QED BY <1>1, <1>2, <1>4 DEF Run, RunScan, Goal, Ended

LEMMA CanFailToRestore ==
  ASSUME NEW p \in Procs, NEW left, RestoreFails(p, left)
  PROVE  \/ Exit(p, "down")
         \/ /\ pc' = [pc EXCEPT ![p] = "restoring"]
            /\ entry' = [entry EXCEPT ![p] = None]
            /\ todo' = [todo EXCEPT ![p] = left]
            /\ all_ok' = [all_ok EXCEPT ![p] = FALSE]
            /\ UNCHANGED <<entries, command, asked, hindered>>
BY DEF RestoreFails

(* A restoring command goes on with a record, or with what is left.        *)
LEMMA Chosen ==
  ASSUME Inv, NEW p \in Procs
  PROVE  /\ \A e \in todo[p] : \A found \in Found(p, e) : found \in entries[p] \cup todo[p]
         /\ entries[p] \cup todo[p] \subseteq Records
BY DEF Found, Find, Inv, MemoryInv
-----------------------------------------------------------------------------
(* The memory of the processes.                                            *)
LEMMA ExitMemory ==
  ASSUME Inv, NEW p \in Procs, NEW how \in Ended, Exit(p, how)
  PROVE  MemoryInv'
BY DEF Inv, MemoryInv, ProcessInv, Exit, Ended, States, Commands

LEMMA StartMemory ==
  ASSUME Inv, NEW p \in Procs, LoadForScan(p) \/ Begins(p)
  PROVE  MemoryInv'
<1> USE DEF Inv, MemoryInv, ProcessInv
<1>1. CASE LoadForScan(p)
  <2>1. PICK records \in SUBSET Records : entries' = [entries EXCEPT ![p] = records]
    BY <1>1 DEF LoadForScan, DiskInv
  <2>2. /\ pc' = [pc EXCEPT ![p] = "scanning"] /\ pc[p] \in Ended
        /\ UNCHANGED <<entry, command, asked, todo, all_ok>>
        /\ hindered' = hindered \cup Commanding
    BY <1>1 DEF LoadForScan
  <2> QED BY <2>1, <2>2 DEF States, Ended, Commanding
<1>2. CASE Begins(p)
  <2>1. PICK what \in Commands, records \in SUBSET metadata.entries,
             loaded \in SUBSET metadata.entries, to \in States :
          /\ Takes(p, what, records, loaded, to)
          /\ \/ /\ to = "restoring"
                /\ \E some \in SUBSET records : todo' = [todo EXCEPT ![p] = some]
             \/ to = "removing" /\ todo' = todo /\ \A d, e \in records : d = e
    <3>1. PICK loaded \in SUBSET metadata.entries :
            \/ RestoreAll(p, loaded)
            \/ \E e \in loaded : /\ Takes(p, "Restore", {e}, loaded, "restoring")
                                 /\ todo' = [todo EXCEPT ![p] = {e}]
            \/ \E e \in loaded : /\ Takes(p, "Delete", {e}, loaded, "removing")
                                 /\ UNCHANGED todo
      BY <1>2 DEF Begins
    <3>2. {"Restore", "RestoreAll", "Delete"} \subseteq Commands
          /\ {"restoring", "removing"} \subseteq States
      BY DEF Commands, States
    <3>3. \A e \in loaded : {e} \in SUBSET metadata.entries
      OBVIOUS
    <3>4. CASE RestoreAll(p, loaded)
      BY <3>2, <3>4 DEF RestoreAll
    <3>5. CASE \E e \in loaded : /\ Takes(p, "Restore", {e}, loaded, "restoring")
                                 /\ todo' = [todo EXCEPT ![p] = {e}]
      BY <3>2, <3>3, <3>5
    <3>6. CASE \E e \in loaded : /\ Takes(p, "Delete", {e}, loaded, "removing")
                                 /\ UNCHANGED todo
      BY <3>2, <3>3, <3>6
    <3> QED BY <3>1, <3>4, <3>5, <3>6
  <2>2. records \subseteq Records /\ loaded \subseteq Records
    BY DEF DiskInv
  <2>3. pc[p] \in Ended /\ entry[p] = None /\ todo[p] = {}
    BY <1>2 DEF Begins, Ended
  <2>4. /\ pc' = [pc EXCEPT ![p] = to] /\ entries' = [entries EXCEPT ![p] = loaded]
        /\ command' = [command EXCEPT ![p] = what]
        /\ asked' = [asked EXCEPT ![p] = records] /\ UNCHANGED <<entry, all_ok>>
        /\ hindered' \subseteq Procs
    BY <2>1 DEF Takes, Commanding
  <2>5. CASE to = "restoring" /\ \E some \in SUBSET records : todo' = [todo EXCEPT ![p] = some]
    BY <2>2, <2>3, <2>4, <2>5 DEF Ended, States
  <2>6. CASE to = "removing" /\ todo' = todo /\ \A d, e \in records : d = e
    BY <2>2, <2>3, <2>4, <2>6 DEF Ended, States
  <2> QED BY <2>1, <2>5, <2>6
<1> QED BY <1>1, <1>2

LEMMA MoveInMemory ==
  ASSUME Inv, NEW p \in Procs, NEW path \in Paths, NEW id \in Ids, MoveIn(p, path, id)
  PROVE  MemoryInv'
<1> DEFINE e == [id |-> id, original_path |-> path, file |-> original[path]]
<1>1. e \in Records /\ e # None
  BY QuarantineAssumption DEF MoveIn, Inv, DiskInv, Records
<1>2. CASE pc' = [pc EXCEPT ![p] = "moved"] /\ entry' = [entry EXCEPT ![p] = e]
  BY <1>1, <1>2 DEF MoveIn, job, Inv, MemoryInv, ProcessInv, States, Ended
<1>3. CASE UNCHANGED <<pc, entry>>
  BY <1>3 DEF MoveIn, job, Inv, MemoryInv, ProcessInv
<1> QED BY <1>2, <1>3 DEF MoveIn

LEMMA RecordMemory ==
  ASSUME Inv, NEW p \in Procs, Record(p) \/ RollBack(p) \/ RecordThrows(p)
  PROVE  MemoryInv'
<1>1. /\ pc[p] = "moved" /\ pc' = [pc EXCEPT ![p] = "scanning"]
      /\ entry' = [entry EXCEPT ![p] = None] /\ UNCHANGED job
      /\ \E records \in SUBSET (entries[p] \cup {entry[p]}) :
           entries' = [entries EXCEPT ![p] = records]
  BY DEF Record, RollBack, RecordThrows, Goes, DropId
<1>2. entry[p] \in Records
  BY <1>1 DEF Inv, MemoryInv, ProcessInv
<1> QED BY <1>1, <1>2 DEF job, Inv, MemoryInv, ProcessInv, States, Ended

LEMMA RestoreMemory ==
  ASSUME Inv, NEW p \in Procs,
         \/ PathIsFree(p) \/ PathIsTaken(p) \/ NotFound(p)
         \/ MoveOut(p) \/ MoveOutFails(p) \/ RestoreDone(p)
  PROVE  MemoryInv'
<1> USE DEF Inv, MemoryInv, ProcessInv
<1>1. CASE PathIsFree(p)
  <2>0. PICK e \in todo[p] : \E found \in Found(p, e) :
          /\ entry' = [entry EXCEPT ![p] = found]
          /\ todo' = [todo EXCEPT ![p] = @ \ {e}]
    BY <1>1 DEF PathIsFree
  <2>1. PICK found \in Found(p, e) : /\ entry' = [entry EXCEPT ![p] = found]
                                     /\ todo' = [todo EXCEPT ![p] = @ \ {e}]
    BY <2>0
  <2>2. found \in Records /\ found # None
    BY Chosen, RecordPlaces
  <2> QED BY <1>1, <2>1, <2>2 DEF PathIsFree, Goes, States, Ended
<1>2. ASSUME NEW left \in SUBSET todo[p], RestoreFails(p, left) PROVE MemoryInv'
  <2>1. CASE Exit(p, "down")
    BY <2>1, ExitMemory DEF Ended
  <2>2. CASE ~ Exit(p, "down")
    <3>1. /\ pc' = [pc EXCEPT ![p] = "restoring"]
          /\ entry' = [entry EXCEPT ![p] = None]
          /\ todo' = [todo EXCEPT ![p] = left]
          /\ all_ok' = [all_ok EXCEPT ![p] = FALSE]
          /\ UNCHANGED <<entries, command, asked, hindered>>
      BY <1>2, <2>2, CanFailToRestore
    <3>2. left \subseteq asked[p] /\ left \in SUBSET Records
      OBVIOUS
    <3> QED BY <3>1, <3>2 DEF States, Ended
  <2> QED BY <2>1, <2>2
<1>3. CASE MoveOut(p)
  BY <1>3 DEF MoveOut, Goes, job, DropId, States, Ended
<1>4. CASE RestoreDone(p)
  BY <1>4 DEF RestoreDone, Goes, job, States, Ended
<1> QED BY <1>1, <1>2, <1>3, <1>4 DEF PathIsTaken, NotFound, MoveOutFails

LEMMA RemoveMemory ==
  ASSUME Inv, NEW p \in Procs, RemoveOne(p)
  PROVE  MemoryInv'
BY DEF RemoveOne, Goes, job, DropId, Inv, MemoryInv, ProcessInv, States, Ended

LEMMA SaveMemory ==
  ASSUME Inv, NEW p \in Procs, Save(p)
  PROVE  MemoryInv'
<1>1. /\ pc[p] = "saving" /\ pc' = [pc EXCEPT ![p] = "saved"]
      /\ UNCHANGED <<entries, entry, command, asked, todo, hindered>>
      /\ all_ok' = all_ok \/ all_ok' = [all_ok EXCEPT ![p] = FALSE]
  BY DEF Save, Goes
<1>2. all_ok' \in [Procs -> BOOLEAN] /\ pc' \in [Procs -> States]
  BY <1>1 DEF Inv, MemoryInv, States
<1>3. ProcessInv'
  BY <1>1 DEF Inv, MemoryInv, ProcessInv, States, Ended
<1> QED BY <1>1, <1>2, <1>3 DEF Inv, MemoryInv
-----------------------------------------------------------------------------
(* The disk.                                                               *)
LEMMA QuietDisk ==
  ASSUME Inv, UNCHANGED <<original, files, born, deleted, overwritten>>,
         disturbed' \in BOOLEAN, metadata'.readable \in BOOLEAN,
         metadata'.entries \subseteq Records
  PROVE  DiskInv'
BY DEF Inv, DiskInv

LEMMA SavedDisk ==
  ASSUME Inv, NEW records \in SUBSET Records, SaveSucceeds(records) \/ SaveFails(records)
  PROVE  /\ metadata'.readable \in BOOLEAN /\ metadata'.entries \subseteq Records
         /\ metadata'.entries \subseteq records \/ metadata' = metadata
<1>1. CASE metadata' = metadata
  BY <1>1 DEF Inv, DiskInv
<1>2. CASE metadata' = [readable |-> TRUE, entries |-> records]
  BY <1>2
<1>3. CASE metadata' = [readable |-> FALSE, entries |-> {}]
  BY <1>3
<1> QED BY <1>1, <1>2, <1>3 DEF SaveSucceeds, SaveFails

LEMMA MovedBackDisk ==
  ASSUME Inv, NEW e \in Records, MovedBack(e) \/ NotMovedBack(e),
         UNCHANGED <<metadata, born, deleted>>, disturbed' \in BOOLEAN
  PROVE  DiskInv'
<1> USE DEF Inv, DiskInv
<1>1. /\ e.original_path \in Paths /\ quarantine_path(e) \in Destinations
      /\ files[quarantine_path(e)] \in born \cup {None}
      /\ original[e.original_path] \in born \cup {None}
  BY RecordPlaces
<1>2. CASE MovedBack(e)
  BY <1>1, <1>2 DEF MovedBack
<1>3. CASE NotMovedBack(e)
  <2>1. CASE UNCHANGED <<original, files, overwritten>>
    BY <2>1
  <2>2. CASE ~ UNCHANGED <<original, files, overwritten>>
    BY <1>1, <1>3, <2>2 DEF NotMovedBack
  <2> QED BY <2>1, <2>2
<1> QED BY <1>2, <1>3
-----------------------------------------------------------------------------
(* The invariant under each operation.                                     *)
LEMMA AppearsKeeps == ASSUME Inv, NEW m \in Malware, Appears(m) PROVE Inv'
<1>1. MemoryInv'
  BY DEF Appears, memory, job, Inv, MemoryInv, ProcessInv
<1>2. DiskInv'
  <2>1. Home[m] \in Paths /\ m # None
    BY QuarantineAssumption DEF Paths
  <2> QED BY <2>1 DEF Appears, Inv, DiskInv
<1> QED BY <1>1, <1>2 DEF Inv

LEMMA ExitKeeps ==
  ASSUME Inv, NEW p \in Procs, NEW how \in Ended, Exit(p, how),
         UNCHANGED <<disk, born, deleted, overwritten>>, disturbed' \in BOOLEAN
  PROVE  Inv'
BY ExitMemory, QuietDisk DEF Inv, DiskInv, disk

LEMMA StartKeeps ==
  ASSUME Inv, NEW p \in Procs, LoadForScan(p) \/ Begins(p)
  PROVE  Inv'
<1>1. MemoryInv'
  BY StartMemory
<1>2. UNCHANGED <<disk, born, deleted, overwritten>> /\ disturbed' \in BOOLEAN
  BY DEF LoadForScan, Begins, RestoreAll, Takes, Disturbs
<1>3. DiskInv'
  BY <1>2, QuietDisk DEF disk, Inv, DiskInv
<1> QED BY <1>1, <1>3 DEF Inv

LEMMA MoveInKeeps ==
  ASSUME Inv, NEW p \in Procs, NEW path \in Paths, NEW id \in Ids, MoveIn(p, path, id)
  PROVE  Inv'
<1>1. MemoryInv'
  BY MoveInMemory
<1>2. /\ files' = [files EXCEPT ![Destination(id, path)] = original[path]]
      /\ original[path] \in born
      /\ UNCHANGED <<metadata, born, deleted, overwritten>> /\ disturbed' \in BOOLEAN
      /\ original' = [original EXCEPT ![path] = None] \/ original' = original
  BY DEF MoveIn, Disturbs, Inv, DiskInv
<1>3. DiskInv'
  BY <1>2 DEF Inv, DiskInv
<1> QED BY <1>1, <1>3 DEF Inv

LEMMA RecordKeeps ==
  ASSUME Inv, NEW p \in Procs, Record(p) \/ RollBack(p) \/ RecordThrows(p)
  PROVE  Inv'
<1> DEFINE records == entries[p] \cup {entry[p]}
<1>1. MemoryInv'
  BY RecordMemory
<1>2. pc[p] = "moved" /\ disturbed' \in BOOLEAN
  BY DEF Record, RollBack, RecordThrows, Goes, Disturbs, Inv, DiskInv
<1>3. entry[p] \in Records /\ records \in SUBSET Records
  BY <1>2 DEF Inv, MemoryInv, ProcessInv
<1>4. CASE Record(p)
  <2>1. SaveSucceeds(records) /\ UNCHANGED <<original, files, born, deleted, overwritten>>
    BY <1>4 DEF Record
  <2> QED BY <1>1, <1>2, <1>3, <2>1, QuietDisk, SavedDisk DEF Inv
<1>5. CASE RollBack(p)
  <2>1. /\ MovedBack(entry[p]) \/ NotMovedBack(entry[p])
        /\ UNCHANGED <<metadata, born, deleted>>
    BY <1>5 DEF RollBack, SaveFails
  <2> QED BY <1>1, <1>2, <1>3, <2>1, MovedBackDisk DEF Inv
<1>6. CASE RecordThrows(p)
  <2>1. UNCHANGED <<disk, born, deleted, overwritten>>
    BY <1>6 DEF RecordThrows
  <2> QED BY <1>1, <1>2, <2>1, QuietDisk DEF disk, Inv, DiskInv
<1> QED BY <1>4, <1>5, <1>6

LEMMA RestoreKeeps ==
  ASSUME Inv, NEW p \in Procs,
         \/ PathIsFree(p) \/ PathIsTaken(p) \/ NotFound(p)
         \/ MoveOut(p) \/ MoveOutFails(p) \/ RestoreDone(p)
  PROVE  Inv'
<1>1. MemoryInv'
  BY RestoreMemory
<1>2. CASE MoveOut(p) \/ MoveOutFails(p)
  <2>1. /\ entry[p] \in Records /\ (MovedBack(entry[p]) \/ NotMovedBack(entry[p]))
        /\ UNCHANGED <<metadata, born, deleted, disturbed>>
    BY <1>2 DEF MoveOut, MoveOutFails, Goes, Inv, MemoryInv, ProcessInv
  <2>2. disturbed' \in BOOLEAN
    BY <2>1 DEF Inv, DiskInv
  <2> QED BY <1>1, <2>1, <2>2, MovedBackDisk DEF Inv
<1>3. CASE PathIsFree(p) \/ PathIsTaken(p) \/ NotFound(p) \/ RestoreDone(p)
  BY <1>1, <1>3, QuietDisk
  DEF PathIsFree, PathIsTaken, NotFound, RestoreDone, disk, history, Inv, DiskInv
<1> QED BY <1>2, <1>3

LEMMA RemoveKeeps == ASSUME Inv, NEW p \in Procs, RemoveOne(p) PROVE Inv'
<1>1. MemoryInv'
  BY RemoveMemory
<1>2. PICK e \in asked[p] :
        /\ files' = [files EXCEPT ![quarantine_path(e)] = None]
        /\ deleted' = deleted \cup ({files[quarantine_path(e)]} \ {None})
  BY DEF RemoveOne
<1>3. UNCHANGED <<original, metadata, born, overwritten, disturbed>>
  BY DEF RemoveOne
<1>4. quarantine_path(e) \in Destinations
  BY RecordPlaces DEF Inv, MemoryInv
<1>5. DiskInv'
  BY <1>2, <1>3, <1>4 DEF Inv, DiskInv
<1> QED BY <1>1, <1>5 DEF Inv

LEMMA SaveKeeps == ASSUME Inv, NEW p \in Procs, Save(p) PROVE Inv'
<1>1. entries[p] \in SUBSET Records /\ disturbed' \in BOOLEAN
  BY DEF Save, Disturbs, Inv, MemoryInv, DiskInv
<1>2. SaveSucceeds(entries[p]) \/ SaveFails(entries[p])
  BY DEF Save
<1>3. DiskInv'
  BY <1>1, <1>2, QuietDisk, SavedDisk DEF Save
<1> QED BY <1>3, SaveMemory DEF Inv

LEMMA StutterKeeps == ASSUME Inv, UNCHANGED vars PROVE Inv'
BY DEF vars, disk, memory, job, history, Inv, MemoryInv, ProcessInv, DiskInv

LEMMA InvStep == ASSUME Inv, [Next]_vars PROVE Inv'
<1>1. ASSUME NEW p \in Procs, NEW argv \in Arguments, Run(p, argv) PROVE Inv'
  <2>1. CASE LoadForScan(p) \/ Begins(p)
    BY <2>1, StartKeeps
  <2>2. CASE Quits(p) /\ UNCHANGED history
    BY <2>2, ExitKeeps DEF Quits, history, Inv, DiskInv
  <2> QED BY <1>1, <2>1, <2>2, RunSteps
<1>2. ASSUME NEW p \in Procs, RemoveOneFails(p) \/ Return(p) \/ EndScan(p) \/ Crash(p)
      PROVE  Inv'
  BY <1>2, ExitKeeps
  DEF RemoveOneFails, Return, EndScan, Crash, Ended, history, Disturbs, Inv, DiskInv
<1> QED BY <1>1, <1>2, AppearsKeeps, MoveInKeeps, RecordKeeps, RestoreKeeps, RemoveKeeps,
    SaveKeeps, StutterKeeps DEF Next, Operations

LEMMA InvInit == Init => Inv
<1> SUFFICES ASSUME Init PROVE Inv
  OBVIOUS
<1>1. MemoryInv
  BY DEF Init, MemoryInv, ProcessInv, Ended, States, Commands
<1>2. DiskInv
  BY DEF Init, DiskInv
<1> QED BY <1>1, <1>2 DEF Inv

(* Every reachable state has the declared types, and no file was deleted   *)
(* or overwritten that has never existed.                                  *)
THEOREM QuarantineTypeCorrect == Spec => []TypeOK
<1>1. Inv => TypeOK
  BY DEF Inv, MemoryInv, DiskInv, TypeOK
<1> QED BY <1>1, InvInit, InvStep, PTL DEF Spec
-----------------------------------------------------------------------------
(* No content vanishes.                                                    *)
Kept(m) == InPlace(m) \/ Captive(m) \/ m \in deleted \cup overwritten

(* Whatever leaves its place is in quarantine, and what leaves quarantine  *)
(* is in some place or deleted; what was there is overwritten.             *)
LEMMA QuietKept ==
  ASSUME NEW m, Kept(m), UNCHANGED <<original, files, overwritten>>, deleted \subseteq deleted'
  PROVE  Kept(m)'
BY DEF Kept, InPlace, Captive

LEMMA MovedBackKept ==
  ASSUME Inv, NEW e \in Records, NEW m \in Malware, Kept(m), MovedBack(e) \/ NotMovedBack(e),
         UNCHANGED deleted
  PROVE  Kept(m)'
<1> DEFINE there == quarantine_path(e)
<1>1. there \in Destinations /\ e.original_path \in Paths /\ m # None
  BY RecordPlaces, QuarantineAssumption
<1>2. original \in [Paths -> Malware \cup {None}] /\ files \in [Destinations -> Malware \cup {None}]
  BY DEF Inv, DiskInv
<1> HIDE DEF there
<1>3. CASE MovedBack(e)
  <2>1. original'[e.original_path] = files[there]
        /\ \A path \in Paths : path # e.original_path => original'[path] = original[path]
    BY <1>1, <1>2, <1>3 DEF MovedBack, there
  <2>2. \A d \in Destinations : d # there => files'[d] = files[d]
    BY <1>1, <1>2, <1>3 DEF MovedBack, there
  <2>3. overwritten' = overwritten \cup ({original[e.original_path]} \ {None, files[there]})
    BY <1>3 DEF MovedBack, there
  <2>4. CASE \E path \in Paths : original[path] = m
    BY <1>1, <2>1, <2>3, <2>4 DEF Kept, InPlace
  <2>5. CASE \E d \in Destinations : files[d] = m
    BY <1>1, <2>1, <2>2, <2>5 DEF Kept, InPlace, Captive
  <2>6. CASE m \in deleted \cup overwritten
    BY <2>3, <2>6 DEF Kept
  <2> QED BY <2>4, <2>5, <2>6 DEF Kept, InPlace, Captive
<1>4. CASE NotMovedBack(e)
  <2>1. CASE UNCHANGED <<original, files, overwritten>>
    BY <2>1, QuietKept
  <2>2. CASE ~ UNCHANGED <<original, files, overwritten>>
    <3>1. /\ original[e.original_path] = None /\ UNCHANGED <<files, overwritten>>
          /\ original' = [original EXCEPT ![e.original_path] = files[there]]
      BY <1>4, <2>2 DEF NotMovedBack, there
    <3> QED BY <1>1, <1>2, <3>1 DEF Kept, InPlace, Captive
  <2> QED BY <2>1, <2>2
<1> QED BY <1>3, <1>4

LEMMA VanishStep ==
  ASSUME Inv, NothingVanishes, [Next]_vars, NEW m \in born'
  PROVE  Kept(m)'
<1>0. /\ m \in born => Kept(m)
      /\ \A q \in Procs : entry[q] # None => entry[q] \in Records
      /\ \A q \in Procs : pc[q] \in {"moved", "checked"} => entry[q] # None
  BY DEF NothingVanishes, Kept, Inv, MemoryInv, ProcessInv
<1>1. CASE \E k \in Malware : Appears(k)
  <2>1. PICK k \in Malware : Appears(k)
    BY <1>1
  <2>2. original'[Home[k]] = k /\ Home[k] \in Paths
    BY <2>1 DEF Appears, Paths, Inv, DiskInv
  <2>3. CASE m = k
    BY <2>2, <2>3 DEF Kept, InPlace
  <2>4. CASE m \in born
    <3>1. \A path \in Paths : original[path] = m => original'[path] = m
      BY <2>1, <2>4, QuarantineAssumption DEF Appears, Inv, DiskInv
    <3> QED BY <1>0, <2>1, <2>4, <3>1 DEF Appears, Kept, InPlace, Captive
  <2> QED BY <2>1, <2>3, <2>4 DEF Appears
<1>2. CASE ~ \E k \in Malware : Appears(k)
  <2>0. CASE UNCHANGED <<original, files, born, overwritten>> /\ deleted \subseteq deleted'
    BY <1>0, <2>0, QuietKept
  <2>1. ASSUME NEW p \in Procs, NEW path \in Paths, NEW id \in Ids, MoveIn(p, path, id)
        PROVE  Kept(m)'
    <3> DEFINE there == Destination(id, path)
    <3>0. there \in Destinations
      BY DEF Destinations
    <3>1. /\ files' = [files EXCEPT ![there] = original[path]] /\ files[there] = None
          /\ original' = [original EXCEPT ![path] = None] \/ original' = original
          /\ UNCHANGED <<born, deleted, overwritten>>
      BY <2>1 DEF MoveIn, NewId
    <3> HIDE DEF there
    <3>2. m \in Malware /\ m # None
      BY <3>1, QuarantineAssumption DEF Inv, DiskInv
    <3>3. original \in [Paths -> Malware \cup {None}]
          /\ files \in [Destinations -> Malware \cup {None}]
      BY DEF Inv, DiskInv
    <3>4. files'[there] = original[path] /\ \A d \in Destinations : files[d] = m => files'[d] = m
      BY <3>0, <3>1, <3>2, <3>3
    <3>5. \A q \in Paths : q # path => original'[q] = original[q]
      BY <3>1, <3>3
    <3> QED BY <1>0, <3>0, <3>1, <3>4, <3>5 DEF Kept, InPlace, Captive
  <2>2. ASSUME NEW p \in Procs, RollBack(p) \/ MoveOut(p) \/ MoveOutFails(p) PROVE Kept(m)'
    <3>1. /\ MovedBack(entry[p]) \/ NotMovedBack(entry[p])
          /\ entry[p] \in Records /\ UNCHANGED <<born, deleted>>
      BY <1>0, <2>2 DEF RollBack, MoveOut, MoveOutFails, Goes
    <3>2. m \in Malware
      BY <3>1 DEF Inv, DiskInv
    <3> QED BY <1>0, <3>1, <3>2, MovedBackKept
  <2>3. ASSUME NEW p \in Procs, RemoveOne(p) PROVE Kept(m)'
    <3>1. PICK e \in asked[p] :
            /\ files' = [files EXCEPT ![quarantine_path(e)] = None]
            /\ deleted' = deleted \cup ({files[quarantine_path(e)]} \ {None})
      BY <2>3 DEF RemoveOne
    <3>2. UNCHANGED <<original, born, overwritten>>
      BY <2>3 DEF RemoveOne
    <3>3. m # None
      BY <3>2, QuarantineAssumption DEF Inv, DiskInv
    <3>4. \A d \in Destinations : files[d] = m => files'[d] = m \/ m \in deleted'
      BY <3>1, <3>3 DEF Inv, DiskInv
    <3> QED BY <1>0, <3>1, <3>2, <3>4 DEF Kept, InPlace, Captive
  <2>4. ASSUME NEW p \in Procs,
               \/ Record(p) \/ RecordThrows(p) \/ PathIsFree(p) \/ PathIsTaken(p) \/ NotFound(p)
               \/ RestoreDone(p) \/ RemoveOneFails(p) \/ Save(p) \/ Return(p)
               \/ EndScan(p) \/ Crash(p)
        PROVE  Kept(m)'
    <3>1. UNCHANGED <<original, files, born, deleted, overwritten>>
      BY <2>4 DEF Record, RecordThrows, PathIsFree, PathIsTaken, NotFound, RestoreDone,
                  RemoveOneFails, Save, Return, EndScan, Crash, disk, history
    <3> QED BY <2>0, <3>1
  <2>5. ASSUME NEW p \in Procs, NEW argv \in Arguments, Run(p, argv) PROVE Kept(m)'
    BY <2>0, <2>5, RunSteps DEF LoadForScan, Begins, RestoreAll, Takes, Quits, disk, history
  <2>6. CASE UNCHANGED vars
    BY <2>0, <2>6 DEF vars, disk, history
  <2> QED BY <1>2, <2>1, <2>2, <2>3, <2>4, <2>5, <2>6 DEF Next, Operations
<1> QED BY <1>1, <1>2

(* A file that was not deleted or overwritten is at a path or in           *)
(* quarantine, whatever fails and whenever any of the processes dies.      *)
THEOREM NothingIsLost == Spec => []NothingVanishes
<1>1. Init => NothingVanishes
  BY DEF Init, NothingVanishes
<1>2. Inv /\ NothingVanishes /\ [Next]_vars => NothingVanishes'
  BY VanishStep DEF NothingVanishes, Kept
<1> QED BY <1>1, <1>2, InvInit, InvStep, PTL DEF Spec
-----------------------------------------------------------------------------
(* The exit code, of a command that nobody hinders.  A record that a       *)
(* restoring command is about is still to do, in hand, or settled, as long *)
(* as nothing has failed or is bound to: of two records with one id, the   *)
(* second will not be found.                                               *)
Settled(p, e) == files[quarantine_path(e)] = None /\ \A r \in entries[p] : r.id # e.id

Doomed(p) == /\ command[p] = "RestoreAll"
             /\ \E d \in todo[p] : \A r \in entries[p] : r.id # d.id

InHand(p, e) ==
  /\ pc[p] = "checked"
  /\ \/ entry[p] = e
     \/ /\ command[p] = "RestoreAll" /\ entry[p].id = e.id
        /\ \E d \in todo[p] : d.id = e.id

Accounted(p, e) == e \in todo[p] \/ Settled(p, e) \/ Doomed(p) \/ InHand(p, e)

Promise(p) ==
  /\ command[p] = "RestoreAll" /\ pc[p] \in {"restoring", "checked"}
       => entries[p] \subseteq asked[p]
  /\ pc[p] \in {"restoring", "checked", "saving"} /\ all_ok[p]
       => \A e \in asked[p] : Accounted(p, e)
  /\ pc[p] = "saved" /\ all_ok[p]
       => \A e \in asked[p] : /\ files[quarantine_path(e)] = None
                              /\ \A r \in metadata.entries : r.id # e.id

Alone(p) == \A q \in Procs \ {p} : pc[q] \in Ended

ExitInv ==
  \A p \in Procs \ hindered : AtWork(p) => Promise(p) /\ Alone(p)

(* While a process runs, only its own promise is at stake.                 *)
LEMMA OwnPromise ==
  ASSUME Inv, ExitInv, NEW p \in Procs, pc[p] \notin Ended,
         \A q \in Procs \ {p} : pc'[q] = pc[q] /\ (q \in hindered => q \in hindered'),
         \/ pc'[p] \in Ended \cup {"scanning", "moved"}
         \/ /\ AtWork(p) /\ hindered' = hindered
            /\ Promise(p) => Promise(p)'
  PROVE  ExitInv'
<1> SUFFICES ASSUME NEW q \in Procs, q \notin hindered', AtWork(q)'
             PROVE  Promise(q)' /\ Alone(q)'
  BY DEF ExitInv
<1>1. CASE q = p
  BY <1>1 DEF ExitInv, AtWork, Alone, Ended
<1>2. CASE q # p
  BY <1>2 DEF ExitInv, AtWork, Alone, Ended
<1> QED BY <1>1, <1>2

LEMMA ChoiceAccounted ==
  ASSUME Inv, ExitInv, NEW p \in Procs, PathIsFree(p)
  PROVE  ExitInv'
<1>1. PICK d \in todo[p] : \E found \in Found(p, d) :
        /\ entry' = [entry EXCEPT ![p] = found]
        /\ todo' = [todo EXCEPT ![p] = @ \ {d}]
  BY DEF PathIsFree
<1>2. PICK found \in Found(p, d) : /\ entry' = [entry EXCEPT ![p] = found]
                                   /\ todo' = [todo EXCEPT ![p] = @ \ {d}]
  BY <1>1
<1>3. /\ pc[p] = "restoring" /\ pc' = [pc EXCEPT ![p] = "checked"]
      /\ UNCHANGED <<files, entries, command, asked, all_ok, hindered>>
  BY DEF PathIsFree, Goes, disk
<1>t. /\ entry'[p] = found /\ todo'[p] = todo[p] \ {d} /\ pc'[p] = "checked"
  BY <1>2, <1>3 DEF Inv, MemoryInv
<1>4. ASSUME Promise(p), all_ok[p], NEW e \in asked[p] PROVE Accounted(p, e)'
  <2>1. \A f \in asked[p] : f \in todo[p] \/ Settled(p, f) \/ Doomed(p)
    BY <1>3, <1>4 DEF Promise, Accounted, InHand
  <2>2. Doomed(p) => Doomed(p)'
    <3> SUFFICES ASSUME Doomed(p) PROVE Doomed(p)'
      OBVIOUS
    <3>1. PICK c \in todo[p] : \A r \in entries[p] : r.id # c.id
      BY DEF Doomed
    <3>2. found \in entries[p] /\ found.id = d.id
      BY DEF Doomed, Found, Find
    <3> QED BY <1>3, <1>t, <3>1, <3>2 DEF Doomed
  <2>3. Settled(p, e) => Settled(p, e)'
    BY <1>3 DEF Settled
  <2>4. CASE e = d /\ ~ Doomed(p)
    <3>1. CASE found = d
      BY <1>t, <2>4, <3>1 DEF InHand, Accounted
    <3>2. CASE found # d
      <4>1. command[p] = "RestoreAll" /\ found \in entries[p] /\ found.id = d.id
        BY <3>2 DEF Found, Find
      <4>2. found \in asked[p]
        BY <1>3, <1>4, <4>1 DEF Promise
      <4>3. found \in todo[p]
        BY <2>1, <2>4, <4>1, <4>2 DEF Settled
      <4> QED BY <1>3, <1>t, <2>4, <3>2, <4>1, <4>3 DEF InHand, Accounted
    <3> QED BY <3>1, <3>2
  <2> QED BY <1>t, <2>1, <2>2, <2>3, <2>4 DEF Accounted
<1>5. Promise(p) => Promise(p)'
  BY <1>3, <1>t, <1>4 DEF Promise
<1> QED BY <1>3, <1>5, OwnPromise DEF Inv, MemoryInv, AtWork, Ended

LEMMA MoveAccounted ==
  ASSUME Inv, ExitInv, NEW p \in Procs, MoveOut(p)
  PROVE  ExitInv'
<1>1. /\ pc[p] = "checked" /\ pc' = [pc EXCEPT ![p] = "restoring"]
      /\ MovedBack(entry[p]) /\ entries' = [entries EXCEPT ![p] = {r \in @ : r.id # entry[p].id}]
      /\ UNCHANGED <<command, asked, todo, all_ok, hindered>>
  BY DEF MoveOut, Goes, DropId, job
<1>2. entry[p] \in Records
  BY <1>1 DEF Inv, MemoryInv, ProcessInv
<1>t. /\ pc'[p] = "restoring" /\ entries'[p] = {r \in entries[p] : r.id # entry[p].id}
      /\ files' = [files EXCEPT ![quarantine_path(entry[p])] = None]
      /\ \A d \in Destinations : files'[d] \in {files[d], None}
      /\ files'[quarantine_path(entry[p])] = None
      /\ \A e \in asked[p] : quarantine_path(e) \in Destinations
  BY <1>1, <1>2, RecordPlaces DEF MovedBack, Inv, MemoryInv, DiskInv
<1>3. ASSUME Promise(p), all_ok[p], NEW e \in asked[p] PROVE Accounted(p, e)'
  <2>1. Accounted(p, e)
    BY <1>1, <1>3 DEF Promise
  <2>2. CASE e \in todo[p]
    BY <1>1, <2>2 DEF Accounted
  <2>3. CASE Settled(p, e)
    <3>1. files'[quarantine_path(e)] = None /\ \A r \in entries'[p] : r.id # e.id
      BY <1>t, <2>3 DEF Settled
    <3> QED BY <3>1 DEF Accounted, Settled, quarantine_path, Destination
  <2>4. CASE Doomed(p)
    <3>1. Doomed(p)'
      BY <1>1, <1>t, <2>4 DEF Doomed
    <3> QED BY <3>1 DEF Accounted
  <2>5. CASE entry[p] = e
    <3>1. files'[quarantine_path(e)] = None /\ \A r \in entries'[p] : r.id # e.id
      BY <1>t, <2>5
    <3> QED BY <3>1 DEF Accounted, Settled, quarantine_path, Destination
  <2>6. CASE /\ command[p] = "RestoreAll" /\ entry[p].id = e.id
             /\ \E d \in todo[p] : d.id = e.id
    <3>1. Doomed(p)'
      BY <1>1, <1>t, <2>6 DEF Doomed
    <3> QED BY <3>1 DEF Accounted
  <2> QED BY <2>1, <2>2, <2>3, <2>4, <2>5, <2>6 DEF Accounted, InHand
<1>4. Promise(p) => Promise(p)'
  BY <1>1, <1>t, <1>3 DEF Promise
<1> QED BY <1>1, <1>4, OwnPromise DEF Inv, MemoryInv, AtWork, Ended

LEMMA SaveAccounted ==
  ASSUME Inv, ExitInv, NEW p \in Procs,
         RestoreDone(p) \/ RemoveOne(p) \/ Save(p)
  PROVE  ExitInv'
<1>t. /\ pc \in [Procs -> States] /\ entries \in [Procs -> SUBSET Records]
      /\ all_ok \in [Procs -> BOOLEAN] /\ files \in [Destinations -> Malware \cup {None}]
      /\ \A e \in asked[p] : quarantine_path(e) \in Destinations
  BY RecordPlaces DEF Inv, MemoryInv, DiskInv
<1>1. ASSUME RestoreDone(p), Promise(p) PROVE Promise(p)'
  <2>1. /\ todo[p] = {} /\ pc[p] = "restoring" /\ pc'[p] = "saving"
        /\ UNCHANGED <<files, entries, command, asked, todo, all_ok>>
    BY <1>1, <1>t DEF RestoreDone, Goes, disk, job
  <2>2. all_ok[p] => \A e \in asked[p] : Settled(p, e)
    BY <1>1, <2>1 DEF Promise, Accounted, InHand, Doomed
  <2> QED BY <2>1, <2>2 DEF Promise, Accounted, Settled
<1>2. ASSUME RemoveOne(p), Promise(p) PROVE Promise(p)'
  <2>1. PICK d \in asked[p] : /\ files' = [files EXCEPT ![quarantine_path(d)] = None]
                              /\ entries' = [entries EXCEPT ![p] = {r \in @ : r.id # d.id}]
    BY <1>2 DEF RemoveOne, DropId
  <2>2. /\ pc[p] = "removing" /\ pc'[p] = "saving" /\ UNCHANGED <<command, asked, todo, all_ok>>
    BY <1>2, <1>t DEF RemoveOne, Goes, job
  <2>3. ASSUME NEW e \in asked[p] PROVE Settled(p, e)'
    <3>1. e = d
      BY <2>2 DEF Inv, MemoryInv, ProcessInv
    <3>2. files'[quarantine_path(e)] = None /\ \A r \in entries'[p] : r.id # e.id
      BY <1>t, <2>1, <3>1
    <3> QED BY <3>2 DEF Settled, quarantine_path, Destination
  <2> QED BY <2>2, <2>3 DEF Promise, Accounted
<1>3. ASSUME Save(p), Promise(p) PROVE Promise(p)'
  <2>1. /\ pc[p] = "saving" /\ pc'[p] = "saved" /\ UNCHANGED <<files, entries, command, asked>>
        /\ todo[p] = {}
    BY <1>3, <1>t DEF Save, Goes, Inv, MemoryInv, ProcessInv
  <2>2. ASSUME all_ok'[p], NEW e \in asked[p]
        PROVE  files[quarantine_path(e)] = None /\ \A r \in metadata'.entries : r.id # e.id
    <3>1. all_ok[p] /\ SaveSucceeds(entries[p])
      BY <1>3, <1>t, <2>2 DEF Save
    <3>2. Settled(p, e)
      BY <1>3, <2>1, <3>1 DEF Promise, Accounted, InHand, Doomed
    <3>3. metadata'.entries \subseteq entries[p]
      BY <3>1 DEF SaveSucceeds
    <3> QED BY <3>2, <3>3 DEF Settled
  <2> QED BY <2>1, <2>2 DEF Promise, quarantine_path, Destination
<1>4. /\ AtWork(p) /\ hindered' = hindered /\ pc[p] \notin Ended
      /\ \A q \in Procs \ {p} : pc'[q] = pc[q]
  BY <1>t DEF RestoreDone, RemoveOne, Save, Goes, job, AtWork, Ended
<1> QED BY <1>1, <1>2, <1>3, <1>4, OwnPromise

LEMMA EndKeeps ==
  ASSUME Inv, ExitInv, NEW p \in Procs, NEW how \in Ended, Exit(p, how),
         \/ pc[p] \notin Ended
         \/ UNCHANGED disk
  PROVE  ExitInv'
<1>t. pc \in [Procs -> States] /\ hindered' = hindered \ {p} /\ pc' = [pc EXCEPT ![p] = how]
  BY DEF Inv, MemoryInv, Exit
<1>1. CASE pc[p] \notin Ended
  BY <1>t, <1>1, OwnPromise
<1>2. CASE pc[p] \in Ended /\ UNCHANGED disk
  <2> SUFFICES ASSUME NEW q \in Procs, q \notin hindered', AtWork(q)'
               PROVE  Promise(q)' /\ Alone(q)'
    BY DEF ExitInv
  <2>1. q # p /\ q \notin hindered /\ AtWork(q)
    BY <1>t DEF AtWork
  <2>2. Promise(q) /\ Alone(q)
    BY <2>1 DEF ExitInv
  <2>3. /\ pc'[q] = pc[q] /\ entries'[q] = entries[q] /\ entry'[q] = entry[q]
        /\ command'[q] = command[q] /\ asked'[q] = asked[q] /\ todo'[q] = todo[q]
        /\ all_ok'[q] = all_ok[q] /\ UNCHANGED <<files, metadata>>
    BY <1>2, <2>1 DEF Exit, disk, Inv, MemoryInv
  <2>4. Promise(q)'
    BY <2>2, <2>3 DEF Promise, Accounted, Settled, Doomed, InHand, quarantine_path, Destination
  <2> QED BY <1>t, <2>2, <2>4 DEF Alone
<1> QED BY <1>1, <1>2

LEMMA BeginKeeps ==
  ASSUME Inv, ExitInv, NEW p \in Procs, LoadForScan(p) \/ Begins(p)
  PROVE  ExitInv'
<1>t. /\ pc \in [Procs -> States] /\ todo \in [Procs -> SUBSET Records]
      /\ entries \in [Procs -> SUBSET Records] /\ asked \in [Procs -> SUBSET Records]
      /\ command \in [Procs -> Commands] /\ pc[p] \in Ended
  BY DEF LoadForScan, Begins, Inv, MemoryInv
<1> SUFFICES ASSUME NEW q \in Procs, q \notin hindered', AtWork(q)'
             PROVE  Promise(q)' /\ Alone(q)'
  BY DEF ExitInv
<1>1. CASE LoadForScan(p)
  BY <1>t, <1>1 DEF LoadForScan, Commanding, AtWork
<1>2. CASE Begins(p)
  <2>1. PICK loaded \in SUBSET metadata.entries :
          \/ RestoreAll(p, loaded)
          \/ \E e \in loaded : /\ Takes(p, "Restore", {e}, loaded, "restoring")
                               /\ todo' = [todo EXCEPT ![p] = {e}]
          \/ \E e \in loaded : /\ Takes(p, "Delete", {e}, loaded, "removing")
                               /\ UNCHANGED todo
    BY <1>2 DEF Begins
  <2>2. PICK what, records, to : Takes(p, what, records, loaded, to)
    BY <2>1 DEF RestoreAll
  <2>3. q = p
    BY <1>t, <2>2 DEF Takes, Commanding, AtWork
  <2>4. loaded = metadata.entries /\ Alone(p)'
    BY <1>t, <2>2, <2>3 DEF Takes, Overlaps, Alone
  <2>5. CASE RestoreAll(p, loaded)
    <3>1. /\ pc'[p] = "restoring" /\ entries'[p] = metadata.entries
          /\ asked'[p] = metadata.entries /\ todo'[p] = metadata.entries
      BY <1>t, <2>4, <2>5 DEF RestoreAll, Takes
    <3> QED BY <2>3, <2>4, <3>1 DEF Promise, Accounted
  <2>6. ASSUME NEW e \in loaded, Takes(p, "Restore", {e}, loaded, "restoring"),
               todo' = [todo EXCEPT ![p] = {e}]
        PROVE  Promise(p)'
    <3>1. /\ pc'[p] = "restoring" /\ command'[p] = "Restore"
          /\ asked'[p] = {e} /\ todo'[p] = {e}
      BY <1>t, <2>6 DEF Takes
    <3> QED BY <3>1 DEF Promise, Accounted
  <2>7. ASSUME NEW e \in loaded, Takes(p, "Delete", {e}, loaded, "removing")
        PROVE  Promise(p)'
    <3>1. pc'[p] = "removing"
      BY <1>t, <2>7 DEF Takes
    <3> QED BY <3>1 DEF Promise
  <2> QED BY <2>1, <2>3, <2>4, <2>5, <2>6, <2>7
<1> QED BY <1>1, <1>2

LEMMA ExitStep ==
  ASSUME Inv, ExitInv, [Next]_vars
  PROVE  ExitInv'
<1>t. pc \in [Procs -> States]
  BY DEF Inv, MemoryInv
<1>1. ASSUME NEW p \in Procs, NEW left, RestoreFails(p, left), pc[p] \in {"restoring", "checked"}
      PROVE  ExitInv'
  <2>1. CASE Exit(p, "down")
    BY <1>1, <2>1, EndKeeps DEF Ended
  <2>2. CASE ~ Exit(p, "down")
    <3>1. /\ pc' = [pc EXCEPT ![p] = "restoring"] /\ all_ok' = [all_ok EXCEPT ![p] = FALSE]
          /\ UNCHANGED <<entries, command, asked, hindered>>
      BY <1>1, <2>2, CanFailToRestore
    <3>2. pc'[p] = "restoring" /\ ~ all_ok'[p]
      BY <3>1 DEF Inv, MemoryInv
    <3>3. Promise(p) => Promise(p)'
      BY <1>1, <3>1, <3>2 DEF Promise
    <3> QED BY <1>1, <1>t, <3>1, <3>3, OwnPromise DEF AtWork, Ended
  <2> QED BY <2>1, <2>2
<1>2. ASSUME NEW p \in Procs, PathIsTaken(p) \/ NotFound(p) \/ MoveOutFails(p) PROVE ExitInv'
  <2>1. pc[p] \in {"restoring", "checked"} /\ \E left \in SUBSET todo[p] : RestoreFails(p, left)
    BY <1>2 DEF PathIsTaken, NotFound, MoveOutFails
  <2> QED BY <1>1, <2>1
<1>3. ASSUME NEW p \in Procs, Record(p) \/ RollBack(p) \/ RecordThrows(p) PROVE ExitInv'
  <2>1. pc[p] = "moved" /\ pc' = [pc EXCEPT ![p] = "scanning"] /\ hindered' = hindered
    BY <1>3 DEF Record, RollBack, RecordThrows, Goes, job
  <2> QED BY <1>t, <2>1, OwnPromise DEF Ended
<1>4. ASSUME NEW p \in Procs, NEW path \in Paths, NEW id \in Ids, MoveIn(p, path, id)
      PROVE  ExitInv'
  <2>1. /\ pc[p] = "scanning" /\ hindered' = hindered /\ pc'[p] \in {"scanning", "moved"}
        /\ \A q \in Procs \ {p} : pc'[q] = pc[q]
    BY <1>4, <1>t DEF MoveIn, job
  <2> QED BY <2>1, OwnPromise DEF Ended
<1>5. ASSUME UNCHANGED <<files, metadata, memory>> PROVE ExitInv'
  BY <1>5 DEF memory, job, ExitInv, AtWork, Promise, Alone, Accounted, Settled, Doomed, InHand
<1>6. ASSUME NEW p \in Procs, NEW argv \in Arguments, Run(p, argv) PROVE ExitInv'
  BY <1>6, BeginKeeps, EndKeeps, RunSteps DEF Quits
<1>7. ASSUME NEW p \in Procs, RemoveOneFails(p) \/ Return(p) \/ EndScan(p) \/ Crash(p)
      PROVE  ExitInv'
  <2>1. pc[p] \notin Ended /\ \E how \in Ended : Exit(p, how)
    BY <1>7 DEF RemoveOneFails, Return, EndScan, Crash, Ended
  <2> QED BY <2>1, EndKeeps
<1>8. ASSUME NEW m \in Malware, Appears(m) PROVE ExitInv'
  BY <1>5, <1>8 DEF Appears
<1>9. ASSUME UNCHANGED vars PROVE ExitInv'
  BY <1>5, <1>9 DEF vars, disk
<1> QED BY <1>2, <1>3, <1>4, <1>6, <1>7, <1>8, <1>9, ChoiceAccounted, MoveAccounted,
    SaveAccounted DEF Next, Operations

(* A command that exits with 0 leaves no file in quarantine for any record *)
(* it was asked about, nor a record on disk with the id of one, whatever   *)
(* fails on the way and however often ids repeat, unless another process   *)
(* ran beside it or it could not see metadata.json.                        *)
THEOREM ExitCodeIsKept == Spec => ExitCodeIsContract
<1>1. Init => ExitInv
  BY DEF Init, ExitInv, AtWork, Ended
<1>2. Inv /\ ExitInv /\ [Next]_vars => ExitInv'
  BY ExitStep
<1> DEFINE Holds == \A p \in Procs \ hindered : pc[p] # "succeeded" /\ pc'[p] = "succeeded" =>
       \A e \in asked[p] : /\ files'[quarantine_path(e)] = None
                           /\ \A r \in metadata'.entries : r.id # e.id
<1>3. Inv /\ ExitInv /\ [Next]_vars => Holds
  <2> SUFFICES ASSUME Inv, ExitInv, [Next]_vars, NEW q \in Procs,
                      q \notin hindered,
                      pc[q] # "succeeded", pc'[q] = "succeeded", NEW e \in asked[q]
               PROVE  /\ files'[quarantine_path(e)] = None
                      /\ \A r \in metadata'.entries : r.id # e.id
    OBVIOUS
  <2>1. pc \in [Procs -> States]
    BY DEF Inv, MemoryInv
  <2>2. pc[q] \notin Ended \cup {"scanning", "moved"}
    BY DEF Inv, MemoryInv, ProcessInv
  <2>3. ASSUME NEW p \in Procs, Exit(p, "down") PROVE FALSE
    BY <2>1, <2>3 DEF Exit
  <2>4. ASSUME NEW p \in Procs, NEW left, RestoreFails(p, left) PROVE FALSE
    BY <2>1, <2>3, <2>4, CanFailToRestore
  <2>5. ASSUME NEW p \in Procs, Return(p)
        PROVE  /\ files'[quarantine_path(e)] = None
               /\ \A r \in metadata'.entries : r.id # e.id
    <3>1. ~ Exit(p, "down")
      BY <2>3
    <3>2. all_ok[p] /\ pc[p] = "saved" /\ Exit(p, "succeeded") /\ UNCHANGED disk
      BY <2>5, <3>1 DEF Return
    <3>3. p = q
      BY <2>1, <3>2 DEF Exit
    <3>4. all_ok[q] /\ pc[q] = "saved" /\ files' = files /\ metadata' = metadata
      BY <3>2, <3>3 DEF disk
    <3> QED BY <3>4 DEF ExitInv, AtWork, Ended, Promise
  <2>6. ASSUME NEW p \in Procs, NEW argv \in Arguments, Run(p, argv) PROVE FALSE
    <3>1. CASE LoadForScan(p)
      BY <2>1, <3>1 DEF LoadForScan
    <3>2. CASE Begins(p)
      BY <2>1, <3>2 DEF Begins, RestoreAll, Takes
    <3>3. CASE Quits(p) /\ pc[p] \in Ended
      BY <2>1, <2>2, <3>3 DEF Quits, Exit
    <3> QED BY <2>6, <3>1, <3>2, <3>3, RunSteps
  <2>7. ASSUME NEW p \in Procs, EndScan(p) PROVE FALSE
    BY <2>1, <2>2, <2>7 DEF EndScan, Exit
  <2>8. ASSUME NEW p \in Procs, NEW to \in States \ {"succeeded"},
               pc' = [pc EXCEPT ![p] = to] \/ pc' = pc
        PROVE  FALSE
    BY <2>1, <2>8
  <2>9. ASSUME NEW p \in Procs, NEW path \in Paths, NEW id \in Ids, MoveIn(p, path, id)
        PROVE  FALSE
    BY <2>8, <2>9 DEF MoveIn, States
  <2>10. ASSUME NEW p \in Procs, NEW from, NEW to \in States \ {"succeeded"}, Goes(p, from, to)
         PROVE  FALSE
    BY <2>8, <2>10 DEF Goes
  <2>11. ASSUME NEW p \in Procs,
                \/ Record(p) \/ RollBack(p) \/ RecordThrows(p) \/ PathIsFree(p)
                \/ MoveOut(p) \/ RestoreDone(p) \/ RemoveOne(p) \/ Save(p)
         PROVE  FALSE
    BY <2>10, <2>11 DEF Record, RollBack, RecordThrows, PathIsFree, MoveOut, RestoreDone,
                        RemoveOne, Save, States
  <2>12. ASSUME NEW p \in Procs,
                \/ PathIsTaken(p) \/ NotFound(p) \/ MoveOutFails(p)
                \/ RemoveOneFails(p) \/ Crash(p)
         PROVE  FALSE
    BY <2>3, <2>4, <2>12 DEF PathIsTaken, NotFound, MoveOutFails, RemoveOneFails, Crash
  <2>13. CASE (\E m \in Malware : Appears(m)) \/ UNCHANGED vars
    BY <2>13 DEF Appears, vars, memory
  <2> QED BY <2>5, <2>6, <2>7, <2>9, <2>11, <2>12, <2>13 DEF Next, Operations
<1> HIDE DEF Holds
<1>4. Spec => [][Holds]_vars
  BY <1>1, <1>2, <1>3, InvInit, InvStep, PTL DEF Spec
<1> QED BY <1>4 DEF Holds, ExitCodeIsContract
-----------------------------------------------------------------------------
(* What it takes to lose a file: as long as nothing has disturbed them,    *)
(* one process runs at a time, it knows the records on disk that still     *)
(* have their files and no others, no two of them have the same id, and a  *)
(* file that is neither in place nor recorded is on its way to its record. *)
OneAtATime == \A p, q \in Procs : p # q => pc[p] \in Ended \/ pc[q] \in Ended

RecordsAreLoaded ==
  \A p \in Procs : pc[p] \notin Ended =>
    \A e \in metadata.entries : e \in entries[p] \/ files[quarantine_path(e)] = None

RecordsAreOnDisk ==
  \A p \in Procs :
    /\ pc[p] \notin Ended => entries[p] \subseteq metadata.entries
    /\ pc[p] \in {"restoring", "checked", "removing"} => asked[p] \subseteq metadata.entries
    /\ pc[p] = "checked" => entry[p] \in metadata.entries
    /\ pc[p] = "moved" => \A e \in metadata.entries : e.id # entry[p].id

OnItsWay(m) == \E p \in Procs : pc[p] = "moved" /\ files[quarantine_path(entry[p])] = m

Safe(m) == m \in deleted \cup overwritten \/ InPlace(m) \/ Recorded(m) \/ OnItsWay(m)

(* What QuarantineFileOperations.h:42 calls an id, unique, is what only a  *)
(* quarantine has in which nothing has gone wrong yet.                     *)
IdsAreUnique == \A d, e \in metadata.entries : d.id = e.id => d = e

Tidy == /\ metadata.readable /\ OneAtATime /\ RecordsAreLoaded
        /\ RecordsAreOnDisk /\ IdsAreUnique

UndisturbedInv == ~disturbed => Tidy /\ \A m \in born : Safe(m)

(* What each step of the one process that runs must not do.                *)
LEMMA StillTidy ==
  ASSUME Inv, Tidy, NEW p \in Procs, pc[p] \notin Ended,
         \A q \in Procs : q # p => pc'[q] = pc[q],
         metadata' = metadata, entries'[p] \subseteq entries[p],
         \A d \in Destinations : files'[d] \in {files[d], None},
         \A e \in entries[p] \ entries'[p] : files'[quarantine_path(e)] = None,
         asked' = asked,
         pc'[p] \in {"restoring", "checked", "removing"}
           => pc[p] \in {"restoring", "checked", "removing"},
         pc'[p] = "checked" => entry'[p] \in metadata.entries,
         pc'[p] # "moved"
  PROVE  Tidy'
<1>1. \A q \in Procs : q # p => pc'[q] \in Ended
  BY DEF Tidy, OneAtATime
<1>2. \A e \in metadata.entries : quarantine_path(e) \in Destinations
  BY RecordPlaces DEF Inv, DiskInv
<1>3. OneAtATime'
  BY <1>1 DEF OneAtATime
<1>4. RecordsAreLoaded'
  <2>1. \A e \in metadata.entries : e \in entries'[p] \/ files'[quarantine_path(e)] = None
    BY <1>2 DEF Tidy, RecordsAreLoaded
  <2> QED BY <1>1, <2>1 DEF RecordsAreLoaded, quarantine_path, Destination
<1>5. RecordsAreOnDisk'
  BY <1>1 DEF Tidy, RecordsAreOnDisk, Ended
<1> QED BY <1>3, <1>4, <1>5 DEF Tidy, IdsAreUnique

(* An exit that leaves the disk alone.                                     *)
LEMMA TidyAtExit ==
  ASSUME Inv, Tidy, NEW p \in Procs, NEW how \in Ended, Exit(p, how),
         UNCHANGED <<files, metadata>>
  PROVE  Tidy'
<1>1. /\ pc'[p] = how
      /\ \A q \in Procs : q # p =>
           /\ pc'[q] = pc[q] /\ entries'[q] = entries[q]
           /\ asked'[q] = asked[q] /\ entry'[q] = entry[q]
  BY DEF Exit, Inv, MemoryInv
<1>2. OneAtATime'
  BY <1>1 DEF Tidy, OneAtATime
<1>3. RecordsAreLoaded'
  BY <1>1 DEF Tidy, RecordsAreLoaded, quarantine_path, Destination
<1>4. RecordsAreOnDisk'
  BY <1>1 DEF Tidy, RecordsAreOnDisk, Ended
<1> QED BY <1>2, <1>3, <1>4 DEF Tidy, IdsAreUnique

(* A process that starts alone and loads what is on disk.                  *)
LEMMA TidyAtStart ==
  ASSUME Inv, Tidy, NEW p \in Procs, ~ Overlaps(p), UNCHANGED disk,
         \A q \in Procs : q # p => pc'[q] = pc[q],
         entries' = [entries EXCEPT ![p] = metadata.entries],
         pc'[p] \in {"restoring", "removing"} => asked'[p] \subseteq metadata.entries,
         pc'[p] \notin {"checked", "moved"}
  PROVE  Tidy'
<1>1. \A q \in Procs : q # p => pc'[q] \in Ended
  BY DEF Overlaps
<1>2. entries'[p] = metadata'.entries
  BY DEF disk, Inv, MemoryInv
<1>3. OneAtATime'
  BY <1>1 DEF OneAtATime
<1>4. RecordsAreLoaded'
  BY <1>1, <1>2 DEF RecordsAreLoaded
<1>5. RecordsAreOnDisk'
  BY <1>1, <1>2 DEF RecordsAreOnDisk, Ended, disk
<1> QED BY <1>3, <1>4, <1>5 DEF Tidy, IdsAreUnique, disk

(* A file is moved under an id that no record has.                         *)
LEMMA TidyAtMoveIn ==
  ASSUME Inv, Tidy, NEW p \in Procs, NEW path \in Paths, NEW id \in Ids,
         MoveIn(p, path, id), ~ Repeats(p, id)
  PROVE  Tidy'
<1>1. /\ files' = [files EXCEPT ![Destination(id, path)] = original[path]]
      /\ UNCHANGED <<metadata, entries, asked>> /\ pc[p] = "scanning"
      /\ \A q \in Procs : q # p => pc'[q] = pc[q]
      /\ \/ pc'[p] = "moved" /\ entry'[p].id = id
         \/ pc'[p] = "scanning"
  BY DEF MoveIn, job, Inv, MemoryInv
<1>2. \A q \in Procs : q # p => pc'[q] \in Ended
  BY <1>1 DEF Tidy, OneAtATime, Ended
<1>3. \A e \in metadata.entries : e.id # id
  BY DEF Repeats
<1>4. \A e \in metadata.entries : files'[quarantine_path(e)] = files[quarantine_path(e)]
  <2> TAKE e \in metadata.entries
  <2>1. quarantine_path(e) # Destination(id, path)
    BY <1>3 DEF quarantine_path, Destination
  <2>2. quarantine_path(e) \in Destinations
    BY RecordPlaces DEF Inv, DiskInv
  <2> QED BY <1>1, <2>1, <2>2 DEF Inv, DiskInv
<1>5. OneAtATime'
  BY <1>2 DEF OneAtATime
<1>6. RecordsAreLoaded'
  BY <1>1, <1>2, <1>4 DEF Tidy, RecordsAreLoaded, Ended, quarantine_path, Destination
<1>7. RecordsAreOnDisk'
  BY <1>1, <1>2, <1>3 DEF Tidy, RecordsAreOnDisk, Ended
<1> QED BY <1>1, <1>5, <1>6, <1>7 DEF Tidy, IdsAreUnique

LEMMA TidyAtRecord ==
  ASSUME Inv, Tidy, NEW p \in Procs, Record(p), metadata'.readable
  PROVE  Tidy' /\ metadata'.entries = entries[p] \cup {entry[p]}
<1>1. metadata' = [readable |-> TRUE, entries |-> entries[p] \cup {entry[p]}]
  BY DEF Record, SaveSucceeds
<1>2. /\ pc[p] = "moved" /\ pc'[p] = "scanning" /\ entries'[p] = metadata'.entries
      /\ \A q \in Procs : q # p => pc'[q] = pc[q]
  BY <1>1 DEF Record, Goes, Inv, MemoryInv
<1>3. \A q \in Procs : q # p => pc'[q] \in Ended
  BY <1>2 DEF Tidy, OneAtATime, Ended
<1>4. OneAtATime' /\ RecordsAreLoaded'
  BY <1>2, <1>3 DEF OneAtATime, RecordsAreLoaded
<1>5. RecordsAreOnDisk'
  BY <1>2, <1>3 DEF RecordsAreOnDisk, Ended
<1>6. entries[p] \subseteq metadata.entries /\ \A e \in metadata.entries : e.id # entry[p].id
  BY <1>2 DEF Tidy, RecordsAreOnDisk, Ended
<1>7. IdsAreUnique'
  BY <1>1, <1>6 DEF Tidy, IdsAreUnique
<1> QED BY <1>1, <1>4, <1>5, <1>7 DEF Tidy

LEMMA TidyAtSave ==
  ASSUME Inv, Tidy, NEW p \in Procs, Save(p), metadata'.readable
  PROVE  Tidy' /\ metadata'.entries \in {entries[p], metadata.entries}
<1>1. metadata' = [readable |-> TRUE, entries |-> entries[p]] \/ metadata' = metadata
  BY DEF Save, SaveSucceeds, SaveFails
<1>2. /\ pc[p] = "saving" /\ pc'[p] = "saved" /\ UNCHANGED <<files, entries>>
      /\ \A q \in Procs : q # p => pc'[q] = pc[q]
  BY DEF Save, Goes, Inv, MemoryInv
<1>3. /\ \A q \in Procs : q # p => pc'[q] \in Ended
      /\ entries[p] \subseteq metadata.entries
      /\ \A e \in metadata.entries : e \in entries[p] \/ files[quarantine_path(e)] = None
  BY <1>2 DEF Tidy, OneAtATime, RecordsAreOnDisk, RecordsAreLoaded, Ended
<1>4. OneAtATime'
  BY <1>3 DEF OneAtATime
<1>5. RecordsAreLoaded'
  BY <1>1, <1>2, <1>3 DEF RecordsAreLoaded, quarantine_path, Destination
<1>6. RecordsAreOnDisk'
  BY <1>1, <1>2, <1>3 DEF RecordsAreOnDisk, Ended
<1>7. IdsAreUnique'
  BY <1>1, <1>3 DEF Tidy, IdsAreUnique
<1> QED BY <1>1, <1>4, <1>5, <1>6, <1>7 DEF Tidy

(* All records that are dropped by id are one, whose file is gone.         *)
LEMMA TidyAtDrop ==
  ASSUME Inv, Tidy, NEW p \in Procs, RollBack(p) \/ MoveOut(p) \/ RemoveOne(p), ~ disturbed'
  PROVE  Tidy'
<1>t. /\ pc \in [Procs -> States] /\ entries \in [Procs -> SUBSET Records]
      /\ files \in [Destinations -> Malware \cup {None}]
  BY DEF Inv, MemoryInv, DiskInv
<1>1. CASE RollBack(p)
  <2>1. /\ pc[p] = "moved" /\ pc'[p] = "scanning" /\ UNCHANGED <<metadata, asked>>
        /\ MovedBack(entry[p])
        /\ entries'[p] = {r \in entries[p] : r.id # entry[p].id}
        /\ \A q \in Procs : q # p => pc'[q] = pc[q]
    BY <1>1, <1>t DEF RollBack, Goes, SaveFails, DropId, Disturbs, job
  <2>2. \A r \in entries[p] : r.id # entry[p].id
    BY <2>1 DEF Tidy, RecordsAreOnDisk, Ended
  <2>3. \A d \in Destinations : files'[d] \in {files[d], None}
    BY <1>t, <2>1 DEF MovedBack
  <2> QED BY <2>1, <2>2, <2>3, StillTidy DEF Ended
<1>2. ASSUME NEW e \in metadata.entries, pc[p] \in {"checked", "removing"},
             files' = [files EXCEPT ![quarantine_path(e)] = None],
             entries'[p] = {r \in entries[p] : r.id # e.id},
             UNCHANGED <<metadata, asked>>, pc'[p] \in {"restoring", "saving"},
             pc'[p] = "restoring" => pc[p] = "checked",
             \A q \in Procs : q # p => pc'[q] = pc[q]
      PROVE  Tidy'
  <2>1. e \in Records /\ quarantine_path(e) \in Destinations
    BY RecordPlaces DEF Inv, DiskInv
  <2>2. \A r \in entries[p] \ entries'[p] : r = e
    BY <1>2 DEF Tidy, RecordsAreOnDisk, IdsAreUnique, Ended
  <2>3. files'[quarantine_path(e)] = None /\ \A d \in Destinations : files'[d] \in {files[d], None}
    BY <1>t, <1>2, <2>1
  <2> QED BY <1>2, <2>2, <2>3, StillTidy DEF Ended
<1>3. CASE MoveOut(p)
  <2>1. /\ pc[p] = "checked" /\ pc'[p] = "restoring" /\ UNCHANGED <<metadata, asked>>
        /\ files' = [files EXCEPT ![quarantine_path(entry[p])] = None]
        /\ entries'[p] = {r \in entries[p] : r.id # entry[p].id}
        /\ \A q \in Procs : q # p => pc'[q] = pc[q]
    BY <1>3, <1>t DEF MoveOut, MovedBack, Goes, DropId, job
  <2>2. entry[p] \in metadata.entries
    BY <2>1 DEF Tidy, RecordsAreOnDisk
  <2> QED BY <1>2, <2>1, <2>2
<1>4. CASE RemoveOne(p)
  <2>1. PICK e \in asked[p] : /\ files' = [files EXCEPT ![quarantine_path(e)] = None]
                              /\ DropId(p, e.id)
    BY <1>4 DEF RemoveOne
  <2>2. /\ pc[p] = "removing" /\ pc'[p] = "saving" /\ UNCHANGED <<metadata, asked>>
        /\ entries'[p] = {r \in entries[p] : r.id # e.id}
        /\ \A q \in Procs : q # p => pc'[q] = pc[q]
    BY <1>4, <1>t, <2>1 DEF RemoveOne, Goes, DropId, job
  <2>3. e \in metadata.entries
    BY <2>2 DEF Tidy, RecordsAreOnDisk
  <2> QED BY <1>2, <2>1, <2>2, <2>3
<1> QED BY <1>1, <1>3, <1>4

LEMMA DisturbedStays == ASSUME Inv, [Next]_vars, ~ disturbed' PROVE ~ disturbed
<1>1. ASSUME NEW p \in Procs, NEW argv \in Arguments, Run(p, argv) PROVE ~ disturbed
  BY <1>1, RunSteps DEF LoadForScan, Begins, RestoreAll, Takes, Disturbs, history
<1>2. ASSUME NEW p \in Procs, NEW path \in Paths, NEW id \in Ids, MoveIn(p, path, id)
      PROVE  ~ disturbed
  BY <1>2 DEF MoveIn, Disturbs
<1>3. ASSUME NEW p \in Procs, Record(p) \/ RollBack(p) \/ RecordThrows(p) PROVE ~ disturbed
  BY <1>3 DEF Record, RollBack, RecordThrows, Disturbs
<1>4. ASSUME NEW p \in Procs,
             \/ PathIsFree(p) \/ PathIsTaken(p) \/ NotFound(p) \/ MoveOut(p) \/ MoveOutFails(p)
             \/ RestoreDone(p) \/ RemoveOne(p) \/ RemoveOneFails(p)
      PROVE  ~ disturbed
  BY <1>4 DEF PathIsFree, PathIsTaken, NotFound, MoveOut, MoveOutFails, RestoreDone, RemoveOne,
              RemoveOneFails, history
<1>5. ASSUME NEW p \in Procs, Save(p) \/ Return(p) \/ EndScan(p) \/ Crash(p) PROVE ~ disturbed
  BY <1>5 DEF Save, Return, EndScan, Crash, Disturbs, history
<1>6. ASSUME NEW m \in Malware, Appears(m) PROVE ~ disturbed
  BY <1>6 DEF Appears
<1>7. CASE UNCHANGED vars
  BY <1>7 DEF vars, history
<1> QED BY <1>1, <1>2, <1>3, <1>4, <1>5, <1>6, <1>7 DEF Next, Operations

LEMMA TidyStep ==
  ASSUME Inv, Tidy, ~ disturbed', [Next]_vars
  PROVE  Tidy'
<1>t. /\ pc \in [Procs -> States] /\ entries \in [Procs -> SUBSET Records]
      /\ entry \in [Procs -> Records \cup {None}] /\ asked \in [Procs -> SUBSET Records]
  BY DEF Inv, MemoryInv
<1>1. ASSUME NEW p \in Procs, NEW how \in Ended, Exit(p, how), UNCHANGED disk PROVE Tidy'
  BY <1>1, TidyAtExit DEF disk
<1>2. ASSUME NEW p \in Procs, LoadForScan(p) PROVE Tidy'
  <2>1. /\ pc'[p] = "scanning" /\ \A q \in Procs : q # p => pc'[q] = pc[q]
        /\ ~ Overlaps(p) /\ UNCHANGED disk
        /\ entries' = [entries EXCEPT ![p] = metadata.entries]
    BY <1>2, <1>t DEF LoadForScan, Disturbs
  <2> QED BY <2>1, TidyAtStart
<1>3. ASSUME NEW p \in Procs, NEW what, NEW records \in SUBSET metadata.entries, NEW loaded,
             NEW to \in {"restoring", "removing"}, Takes(p, what, records, loaded, to)
      PROVE  Tidy'
  <2>1. /\ pc'[p] = to /\ \A q \in Procs : q # p => pc'[q] = pc[q]
        /\ ~ Overlaps(p) /\ UNCHANGED disk /\ asked'[p] = records
        /\ entries' = [entries EXCEPT ![p] = metadata.entries]
    BY <1>3, <1>t DEF Takes, Disturbs
  <2> QED BY <2>1, TidyAtStart
<1>4. ASSUME NEW p \in Procs, Begins(p) PROVE Tidy'
  <2>1. PICK loaded \in SUBSET metadata.entries :
          \/ Takes(p, "RestoreAll", metadata.entries, loaded, "restoring")
          \/ \E e \in loaded : \/ Takes(p, "Restore", {e}, loaded, "restoring")
                               \/ Takes(p, "Delete", {e}, loaded, "removing")
    BY <1>4 DEF Begins, RestoreAll
  <2>2. \A e \in loaded : {e} \in SUBSET metadata.entries
    OBVIOUS
  <2> QED BY <1>3, <2>1, <2>2
<1>5. ASSUME NEW p \in Procs, NEW argv \in Arguments, Run(p, argv) PROVE Tidy'
  BY <1>1, <1>2, <1>4, <1>5, RunSteps DEF Quits
<1>6. ASSUME NEW p \in Procs, NEW path \in Paths, NEW id \in Ids, MoveIn(p, path, id)
      PROVE  Tidy'
  BY <1>6, TidyAtMoveIn DEF MoveIn, Disturbs
<1>7. ASSUME NEW p \in Procs, Record(p) \/ Save(p) PROVE Tidy'
  BY <1>7, TidyAtRecord, TidyAtSave DEF Record, Save, Disturbs
<1>8. ASSUME NEW p \in Procs, RollBack(p) \/ MoveOut(p) \/ RemoveOne(p) PROVE Tidy'
  BY <1>8, TidyAtDrop
<1>9. ASSUME NEW p \in Procs, PathIsFree(p) PROVE Tidy'
  <2>1. PICK e \in todo[p] : \E found \in Found(p, e) : entry' = [entry EXCEPT ![p] = found]
    BY <1>9 DEF PathIsFree
  <2>2. PICK found \in Found(p, e) : entry' = [entry EXCEPT ![p] = found]
    BY <2>1
  <2>3. /\ pc[p] = "restoring" /\ pc'[p] = "checked" /\ entry'[p] = found
        /\ UNCHANGED <<disk, entries, asked>> /\ \A q \in Procs : q # p => pc'[q] = pc[q]
    BY <1>9, <1>t, <2>2 DEF PathIsFree, Goes
  <2>4. found \in metadata.entries
    BY <2>3, Chosen DEF Tidy, RecordsAreOnDisk, Ended, Inv, MemoryInv
  <2> QED BY <2>3, <2>4, StillTidy DEF disk, Ended
<1>10. ASSUME NEW p \in Procs, RestoreDone(p) PROVE Tidy'
  <2>1. /\ pc[p] = "restoring" /\ pc'[p] = "saving"
        /\ UNCHANGED <<disk, entries, asked>> /\ \A q \in Procs : q # p => pc'[q] = pc[q]
    BY <1>10, <1>t DEF RestoreDone, Goes, job
  <2> QED BY <2>1, StillTidy DEF disk, Ended
<1>11. ASSUME NEW p \in Procs, NEW left, RestoreFails(p, left), UNCHANGED <<files, metadata>>,
              pc[p] \in {"restoring", "checked"}
       PROVE  Tidy'
  <2>1. CASE Exit(p, "down")
    BY <1>11, <2>1, TidyAtExit DEF Ended
  <2>2. CASE ~ Exit(p, "down")
    <3>1. /\ pc'[p] = "restoring" /\ UNCHANGED <<entries, asked>>
          /\ \A q \in Procs : q # p => pc'[q] = pc[q]
      BY <1>11, <1>t, <2>2, CanFailToRestore
    <3> QED BY <1>11, <3>1, StillTidy DEF Ended
  <2> QED BY <2>1, <2>2
<1>12. ASSUME NEW p \in Procs, PathIsTaken(p) \/ NotFound(p) \/ MoveOutFails(p) PROVE Tidy'
  <2>1. /\ UNCHANGED <<files, metadata>> /\ pc[p] \in {"restoring", "checked"}
        /\ \E left \in SUBSET todo[p] : RestoreFails(p, left)
    BY <1>12 DEF PathIsTaken, NotFound, MoveOutFails, NotMovedBack, disk
  <2> QED BY <1>11, <2>1
<1>13. ASSUME NEW p \in Procs, RemoveOneFails(p) \/ Return(p) \/ EndScan(p) PROVE Tidy'
  BY <1>1, <1>13 DEF RemoveOneFails, Return, EndScan, Ended
<1>14. ASSUME NEW p \in Procs, RecordThrows(p) \/ Crash(p) PROVE FALSE
  BY <1>14 DEF RecordThrows, Crash, Disturbs
<1>15. ASSUME UNCHANGED <<files, metadata, memory>> PROVE Tidy'
  BY <1>15 DEF memory, job, Tidy, OneAtATime, RecordsAreLoaded, RecordsAreOnDisk, IdsAreUnique
<1>16. ASSUME NEW m \in Malware, Appears(m) PROVE Tidy'
  BY <1>15, <1>16 DEF Appears
<1>17. ASSUME UNCHANGED vars PROVE Tidy'
  BY <1>15, <1>17 DEF vars, disk
<1> QED BY <1>5, <1>6, <1>7, <1>8, <1>9, <1>10, <1>12, <1>13, <1>14, <1>16, <1>17
    DEF Next, Operations
-----------------------------------------------------------------------------
(* Where a file is.                                                        *)
LEMMA QuietSafe ==
  ASSUME Inv, NEW m, Safe(m), UNCHANGED <<original, files, metadata, deleted, overwritten>>,
         \A p \in Procs : pc[p] = "moved" => pc'[p] = "moved" /\ entry'[p] = entry[p]
  PROVE  Safe(m)'
BY DEF Safe, InPlace, Recorded, OnItsWay, quarantine_path, Destination

LEMMA MovedBackSafe ==
  ASSUME Inv, NEW e \in Records, NEW m \in Malware, Safe(m), MovedBack(e),
         UNCHANGED <<metadata, deleted>>,
         \A p \in Procs : pc[p] = "moved" => entry[p] = e
  PROVE  Safe(m)'
<1> DEFINE there == quarantine_path(e)
<1>1. there \in Destinations /\ e.original_path \in Paths /\ m # None
      /\ original \in [Paths -> Malware \cup {None}]
      /\ files \in [Destinations -> Malware \cup {None}]
      /\ \A r \in metadata.entries : quarantine_path(r) \in Destinations
  BY RecordPlaces, QuarantineAssumption DEF Inv, DiskInv
<1>2. /\ original'[e.original_path] = files[there]
      /\ \A path \in Paths : path # e.original_path => original'[path] = original[path]
      /\ \A d \in Destinations : d # there => files'[d] = files[d]
      /\ overwritten' = overwritten \cup ({original[e.original_path]} \ {None, files[there]})
  BY <1>1 DEF MovedBack
<1>3. files[there] = m => InPlace(m)'
  BY <1>1, <1>2 DEF InPlace
<1>4. CASE InPlace(m)
  BY <1>1, <1>2, <1>3, <1>4 DEF InPlace, Safe
<1>5. CASE Recorded(m)
  <2>1. PICK r \in metadata.entries : files[quarantine_path(r)] = m
    BY <1>5 DEF Recorded
  <2>2. CASE quarantine_path(r) = there
    BY <1>3, <2>1, <2>2 DEF Safe
  <2>3. CASE quarantine_path(r) # there
    BY <1>1, <1>2, <2>1, <2>3 DEF Recorded, Safe, quarantine_path, Destination
  <2> QED BY <2>2, <2>3
<1>6. CASE OnItsWay(m)
  BY <1>3, <1>6 DEF OnItsWay, Safe
<1>7. CASE m \in deleted \cup overwritten
  BY <1>2, <1>7 DEF Safe
<1> QED BY <1>4, <1>5, <1>6, <1>7 DEF Safe

LEMMA NotMovedBackSafe ==
  ASSUME Inv, NEW e \in Records, NEW m \in Malware, Safe(m), NotMovedBack(e),
         UNCHANGED <<metadata, deleted>>,
         \A p \in Procs : pc[p] # "moved"
  PROVE  Safe(m)'
<1>1. e.original_path \in Paths /\ m # None /\ original \in [Paths -> Malware \cup {None}]
  BY RecordPlaces, QuarantineAssumption DEF Inv, DiskInv
<1>2. UNCHANGED <<files, overwritten>>
      /\ \A path \in Paths : original[path] # None => original'[path] = original[path]
  BY <1>1 DEF NotMovedBack
<1> QED BY <1>1, <1>2 DEF Safe, InPlace, Recorded, OnItsWay, quarantine_path, Destination

LEMMA MoveInSafe ==
  ASSUME Inv, OneAtATime, NEW p \in Procs, NEW path \in Paths, NEW id \in Ids,
         MoveIn(p, path, id), NEW m \in Malware, Safe(m)
  PROVE  Safe(m)'
<1> DEFINE there == Destination(id, path)
           e == [id |-> id, original_path |-> path, file |-> original[path]]
<1>1. /\ m # None /\ there \in Destinations
      /\ original \in [Paths -> Malware \cup {None}]
      /\ files \in [Destinations -> Malware \cup {None}] /\ pc \in [Procs -> States]
      /\ entry \in [Procs -> Records \cup {None}]
      /\ \A r \in metadata.entries : quarantine_path(r) \in Destinations
  BY RecordPlaces, QuarantineAssumption DEF Inv, DiskInv, MemoryInv, Destinations
<1>2. /\ files' = [files EXCEPT ![there] = original[path]] /\ files[there] = None
      /\ pc[p] = "scanning" /\ UNCHANGED <<metadata, deleted, overwritten>>
  BY DEF MoveIn, NewId
<1>3. \A q \in Procs : pc[q] # "moved"
  BY <1>2 DEF OneAtATime, Ended
<1>4. CASE Recorded(m)
  <2>1. PICK r \in metadata.entries : files[quarantine_path(r)] = m
    BY <1>4 DEF Recorded
  <2>2. files'[quarantine_path(r)] = m
    BY <1>1, <1>2, <2>1
  <2> QED BY <1>2, <2>1, <2>2 DEF Recorded, Safe, quarantine_path, Destination
<1>5. CASE InPlace(m)
  <2>1. CASE original' = original
    BY <1>5, <2>1 DEF InPlace, Safe
  <2>2. CASE /\ original' = [original EXCEPT ![path] = None]
             /\ pc' = [pc EXCEPT ![p] = "moved"]
             /\ entry' = [entry EXCEPT ![p] = e]
    <3>1. pc'[p] = "moved" /\ entry'[p] = e /\ files'[there] = original[path]
      BY <1>1, <1>2, <2>2
    <3>2. quarantine_path(e) = there
      BY DEF quarantine_path
    <3>3. original[path] = m => OnItsWay(m)'
      BY <3>1, <3>2 DEF OnItsWay, quarantine_path, Destination
    <3>4. \A q \in Paths : original[q] = m => q = path \/ original'[q] = m
      BY <1>1, <2>2
    <3> QED BY <1>5, <3>3, <3>4 DEF InPlace, Safe
  <2> QED BY <2>1, <2>2 DEF MoveIn
<1>6. CASE m \in deleted \cup overwritten
  BY <1>2, <1>6 DEF Safe
<1> QED BY <1>3, <1>4, <1>5, <1>6 DEF Safe, OnItsWay

(* A save records what has been recorded before and still has its file.    *)
LEMMA SavedSafe ==
  ASSUME Inv, OneAtATime, RecordsAreLoaded, NEW p \in Procs, pc[p] \notin Ended,
         metadata'.entries = entries[p] \cup {entry[p]} \/
           (pc[p] # "moved" /\ metadata'.entries \in {entries[p], metadata.entries}),
         UNCHANGED <<original, files, deleted, overwritten>>,
         NEW m \in Malware, Safe(m)
  PROVE  Safe(m)'
<1>1. m # None
  BY QuarantineAssumption
<1>2. CASE Recorded(m)
  <2>1. PICK r \in metadata.entries : files[quarantine_path(r)] = m
    BY <1>2 DEF Recorded
  <2>2. r \in entries[p]
    BY <1>1, <2>1 DEF RecordsAreLoaded
  <2> QED BY <2>1, <2>2 DEF Recorded, Safe, quarantine_path, Destination
<1>3. CASE OnItsWay(m)
  <2>1. PICK q \in Procs : pc[q] = "moved" /\ files[quarantine_path(entry[q])] = m
    BY <1>3 DEF OnItsWay
  <2>2. q = p
    BY <2>1 DEF OneAtATime, Ended
  <2>3. entry[p] \in metadata'.entries
    BY <2>1, <2>2
  <2> QED BY <2>1, <2>2, <2>3 DEF Recorded, Safe, quarantine_path, Destination
<1> QED BY <1>2, <1>3 DEF Safe, InPlace

LEMMA RemovedSafe ==
  ASSUME Inv, OneAtATime, NEW p \in Procs, RemoveOne(p), NEW m \in Malware, Safe(m)
  PROVE  Safe(m)'
<1>1. PICK e \in asked[p] :
        /\ files' = [files EXCEPT ![quarantine_path(e)] = None]
        /\ deleted' = deleted \cup ({files[quarantine_path(e)]} \ {None})
  BY DEF RemoveOne
<1>2. UNCHANGED <<original, metadata, overwritten>> /\ pc[p] = "removing"
  BY DEF RemoveOne, Goes
<1>3. \A d \in Destinations : files[d] = m => files'[d] = m \/ m \in deleted'
  BY <1>1, QuarantineAssumption DEF Inv, DiskInv
<1>4. \A r \in metadata.entries : quarantine_path(r) \in Destinations
  BY RecordPlaces DEF Inv, DiskInv
<1>5. ~ OnItsWay(m)
  BY <1>2 DEF OnItsWay, OneAtATime, Ended
<1> QED BY <1>1, <1>2, <1>3, <1>4, <1>5 DEF Safe, InPlace, Recorded, quarantine_path, Destination

LEMMA AppearsSafe ==
  ASSUME Inv, NEW k \in Malware, Appears(k), NEW m \in born', m \in born => Safe(m)
  PROVE  Safe(m)'
<1>1. /\ original' = [original EXCEPT ![Home[k]] = k] /\ born' = born \cup {k}
      /\ UNCHANGED <<files, metadata, memory, deleted, overwritten>>
      /\ original[Home[k]] = None
  BY DEF Appears
<1>2. m \in Malware /\ m # None /\ Home[k] \in Paths
      /\ original \in [Paths -> Malware \cup {None}]
  BY <1>1, QuarantineAssumption DEF Paths, Inv, DiskInv
<1>3. /\ original'[Home[k]] = k
      /\ \A path \in Paths : original[path] # None => original'[path] = original[path]
  BY <1>1, <1>2
<1>4. CASE m = k
  BY <1>2, <1>3, <1>4 DEF Safe, InPlace
<1>5. CASE m # k
  BY <1>1, <1>2, <1>3, <1>5
  DEF Safe, InPlace, Recorded, OnItsWay, memory, quarantine_path, Destination
<1> QED BY <1>4, <1>5

LEMMA SafeStep ==
  ASSUME Inv, UndisturbedInv, ~ disturbed, ~ disturbed', [Next]_vars, NEW m \in born'
  PROVE  Safe(m)'
<1>t. /\ m \in Malware /\ pc \in [Procs -> States]
      /\ entry \in [Procs -> Records \cup {None}]
      /\ \A q \in Procs : pc[q] \in {"moved", "checked"} => entry[q] \in Records
  BY InvStep DEF Inv, MemoryInv, ProcessInv, DiskInv
<1>1. Tidy /\ OneAtATime /\ RecordsAreLoaded /\ (m \in born => Safe(m))
  BY DEF UndisturbedInv, Tidy
<1>2. ASSUME NEW k \in Malware, Appears(k) PROVE Safe(m)'
  BY <1>1, <1>2, AppearsSafe
<1>3. ASSUME NEW p \in Procs, pc[p] # "moved", born' = born,
             UNCHANGED <<original, files, metadata, deleted, overwritten>>,
             \A q \in Procs : q # p => pc'[q] = pc[q] /\ entry'[q] = entry[q]
      PROVE  Safe(m)'
  BY <1>1, <1>3, QuietSafe
<1>4. ASSUME NEW p \in Procs,
             \/ RestoreDone(p) \/ RemoveOneFails(p) \/ Return(p) \/ EndScan(p)
             \/ PathIsTaken(p) \/ NotFound(p) \/ PathIsFree(p)
      PROVE  Safe(m)'
  <2>1. /\ pc[p] # "moved" /\ UNCHANGED <<original, files, metadata, born, deleted, overwritten>>
    BY <1>4 DEF RestoreDone, RemoveOneFails, Return, EndScan, PathIsTaken, NotFound, PathIsFree,
                Goes, disk, history
  <2>2. ASSUME NEW left, RestoreFails(p, left)
        PROVE  \A q \in Procs : q # p => pc'[q] = pc[q] /\ entry'[q] = entry[q]
    BY <1>t, <2>2, CanFailToRestore DEF Exit
  <2>3. \A q \in Procs : q # p => pc'[q] = pc[q] /\ entry'[q] = entry[q]
    <3>1. CASE PathIsTaken(p) \/ NotFound(p)
      BY <2>2, <3>1 DEF PathIsTaken, NotFound
    <3>2. CASE RestoreDone(p) \/ PathIsFree(p)
      BY <1>t, <3>2 DEF RestoreDone, PathIsFree, Goes
    <3>3. CASE RemoveOneFails(p) \/ Return(p) \/ EndScan(p)
      BY <1>t, <3>3 DEF RemoveOneFails, Return, EndScan, Exit
    <3> QED BY <1>4, <3>1, <3>2, <3>3
  <2> QED BY <1>3, <2>1, <2>3
<1>5. ASSUME NEW p \in Procs, NEW argv \in Arguments, Run(p, argv) PROVE Safe(m)'
  <2>1. CASE LoadForScan(p)
    BY <1>3, <1>t, <2>1 DEF LoadForScan, disk, Ended
  <2>2. CASE Begins(p)
    BY <1>3, <1>t, <2>2 DEF Begins, RestoreAll, Takes, disk, Ended
  <2>3. CASE Quits(p) /\ pc[p] \in Ended /\ UNCHANGED history
    BY <1>3, <1>t, <2>3 DEF Quits, Exit, disk, history, Ended
  <2> QED BY <1>5, <2>1, <2>2, <2>3, RunSteps
<1>6. ASSUME NEW p \in Procs, NEW path \in Paths, NEW id \in Ids, MoveIn(p, path, id)
      PROVE  Safe(m)'
  BY <1>1, <1>t, <1>6, MoveInSafe DEF MoveIn
<1>7. ASSUME NEW p \in Procs, Record(p) PROVE Safe(m)'
  <2>1. /\ pc[p] = "moved" /\ UNCHANGED <<original, files, born, deleted, overwritten>>
        /\ metadata'.readable
    BY <1>7 DEF Record, Goes, Disturbs
  <2>2. metadata'.entries = entries[p] \cup {entry[p]}
    BY <1>1, <1>7, <2>1, TidyAtRecord
  <2> QED BY <1>1, <1>t, <2>1, <2>2, SavedSafe DEF Ended
<1>8. ASSUME NEW p \in Procs, RollBack(p) \/ MoveOut(p) PROVE Safe(m)'
  <2>1. MovedBack(entry[p]) /\ UNCHANGED <<metadata, born, deleted>> /\ entry[p] \in Records
    BY <1>t, <1>8 DEF RollBack, MoveOut, SaveFails, Disturbs, Goes
  <2>2. pc[p] \notin Ended
    BY <1>8 DEF RollBack, MoveOut, Goes, Ended
  <2>3. \A q \in Procs : pc[q] = "moved" => entry[q] = entry[p]
    BY <1>1, <2>2 DEF OneAtATime, Ended
  <2> QED BY <1>1, <1>t, <2>1, <2>3, MovedBackSafe
<1>9. ASSUME NEW p \in Procs, MoveOutFails(p) PROVE Safe(m)'
  <2>1. /\ NotMovedBack(entry[p]) /\ UNCHANGED <<metadata, born, deleted>>
        /\ entry[p] \in Records /\ pc[p] = "checked"
    BY <1>t, <1>9 DEF MoveOutFails
  <2>2. \A q \in Procs : pc[q] # "moved"
    BY <1>1, <2>1 DEF OneAtATime, Ended
  <2> QED BY <1>1, <1>t, <2>1, <2>2, NotMovedBackSafe
<1>10. ASSUME NEW p \in Procs, RemoveOne(p) PROVE Safe(m)'
  BY <1>1, <1>t, <1>10, RemovedSafe DEF RemoveOne
<1>11. ASSUME NEW p \in Procs, Save(p) PROVE Safe(m)'
  <2>1. /\ pc[p] = "saving" /\ UNCHANGED <<original, files, born, deleted, overwritten>>
        /\ metadata'.readable
    BY <1>11 DEF Save, Goes, Disturbs
  <2>2. metadata'.entries \in {entries[p], metadata.entries}
    BY <1>1, <1>11, <2>1, TidyAtSave
  <2> QED BY <1>1, <1>t, <2>1, <2>2, SavedSafe DEF Ended
<1>12. ASSUME NEW p \in Procs, RecordThrows(p) \/ Crash(p) PROVE FALSE
  BY <1>12 DEF RecordThrows, Crash, Disturbs
<1>13. ASSUME UNCHANGED vars PROVE Safe(m)'
  BY <1>1, <1>13, QuietSafe DEF vars, disk, memory, history
<1> QED BY <1>2, <1>4, <1>5, <1>6, <1>7, <1>8, <1>9, <1>10, <1>11, <1>12, <1>13
    DEF Next, Operations

(* Failing saves and moves alone lose no file: while nothing else has      *)
(* disturbed the processes, a file that is not at a path has a record on   *)
(* disk that leads to it whenever nothing is under way.                    *)
THEOREM OnlyDisturbanceLoses == Spec => []LostOnlyIfDisturbed
<1>1. Init => UndisturbedInv
  BY DEF Init, UndisturbedInv, Tidy, OneAtATime, RecordsAreLoaded, RecordsAreOnDisk,
         IdsAreUnique, Ended
<1>2. Inv /\ UndisturbedInv /\ [Next]_vars => UndisturbedInv'
  <2> SUFFICES ASSUME Inv, UndisturbedInv, [Next]_vars, ~ disturbed'
               PROVE  Tidy' /\ \A m \in born' : Safe(m)'
    BY DEF UndisturbedInv
  <2>1. ~ disturbed
    BY DisturbedStays
  <2> QED BY <2>1, TidyStep, SafeStep DEF UndisturbedInv
<1>3. UndisturbedInv => LostOnlyIfDisturbed
  BY DEF UndisturbedInv, LostOnlyIfDisturbed, NotLost, AtRest, Safe, OnItsWay, Ended
<1> QED BY <1>1, <1>2, <1>3, InvInit, InvStep, PTL DEF Spec
=============================================================================
