-------------------------- MODULE MCApplication --------------------------
(***************************************************************************)
(* Small instances of Application: files that share a path, so that a      *)
(* path can be taken again while its first file is in quarantine, and a    *)
(* path with another extension, so that two files can have the same id.    *)
(***************************************************************************)
EXTENDS Application, TLC

CONSTANTS m1, m2, m3, p1, p2

Interchangeable == Permutations({p1, p2})

OneHome == [m \in Malware |-> "a"]
TwoHomes == [m \in Malware |-> IF m = m3 THEN "b" ELSE "a"]
Extensions == [path \in Paths |-> IF path = "a" THEN ".txt" ELSE ".exe"]
=============================================================================
