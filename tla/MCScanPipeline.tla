-------------------------- MODULE MCScanPipeline --------------------------
(***************************************************************************)
(* Small instances of ScanPipeline: the root "/" with every file and a     *)
(* directory with the last one, whose paths are ordered as they are        *)
(* walked.                                                                 *)
(***************************************************************************)
EXTENDS ScanPipeline

MCKey == [f \in Files |-> f]
MCRoots == {"/", "sub"}
MCFilesOf == [r \in MCRoots |-> IF r = "/" THEN Files ELSE {NFiles}]

(* A signature that a later version of the signature file adds finds what  *)
(* the earlier ones do not; some contents are malicious from the start.    *)
MCMatches == {c \in Contents : c.signatures >= c.file}
=============================================================================
