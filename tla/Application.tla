---------------------------- MODULE Application ----------------------------
(***************************************************************************)
(* The processes of the program: CommandParser turns the arguments into a  *)
(* command, Application dispatches it and turns its result into the exit   *)
(* code, and QuarantineManager does the work.  A scan is what it does to   *)
(* the quarantine; the rest of it is ScanPipeline's.                       *)
(***************************************************************************)
EXTENDS QuarantineManager, Sequences

(* Arguments: a word, or anything else, and perhaps a path or an id.       *)
Words == {"scan-all", "scan", "restore", "restore-all", "delete", "q-list",
          "help", "anything else"}

Arguments == {<<>>} \cup {<<w>> : w \in Words} \cup (Words \X Ids)

(* CommandParser::parse(); more arguments than needed are ignored.         *)
Parse(argv) ==
  IF argv = <<>> THEN "Help"
  ELSE CASE argv[1] = "scan-all" -> "ScanAll"
         [] argv[1] = "scan" /\ Len(argv) > 1 -> "ScanPath"
         [] argv[1] = "restore-all" -> "RestoreAll"
         [] argv[1] = "restore" /\ Len(argv) > 1 -> "Restore"
         [] argv[1] = "delete" /\ Len(argv) > 1 -> "Delete"
         [] argv[1] = "q-list" -> "ListQuarantine"
         [] argv[1] = "help" -> "Help"
         [] OTHER -> "Unknown"

(* Help, q-list and a mistake come to nothing but an exit code.            *)
Says(p, how) == Exit(p, how) /\ UNCHANGED <<disk, history>>

(* runScan() returns 0, whatever the scan met with.                        *)
RunScan(p) == LoadForScan(p)

(* runQuarantine(): a command that cannot load the records fails at once;  *)
(* one that cannot see whether there are any goes on with none.            *)
RunQuarantine(p, what, argv) ==
  \/ CannotLoad /\ Says(p, "down")
  \/ \E loaded \in {metadata.entries, {}} :
       /\ Loads(loaded)
       /\ \/ what = "Restore" /\ Restore(p, argv[2], loaded)
          \/ what = "RestoreAll" /\ RestoreAll(p, loaded)
          \/ what = "Delete" /\ Remove(p, argv[2], loaded)
          \/ what = "ListQuarantine" /\ Says(p, "succeeded")

(* run() and dispatch()                                                    *)
Run(p, argv) ==
  LET what == Parse(argv)
  IN  /\ pc[p] \in Ended
      /\ \/ what = "Help" /\ Says(p, "succeeded")
         \/ what = "Unknown" /\ Says(p, "down")
         \/ what \in {"ScanAll", "ScanPath"} /\ RunScan(p)
         \/ /\ what \in {"Restore", "RestoreAll", "Delete", "ListQuarantine"}
            /\ RunQuarantine(p, what, argv)

Next == Operations \/ \E p \in Procs, argv \in Arguments : Run(p, argv)

Spec == Init /\ [][Next]_vars
=============================================================================
