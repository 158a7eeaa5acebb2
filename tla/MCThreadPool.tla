--------------------------- MODULE MCThreadPool ---------------------------
(***************************************************************************)
(* Small instances of ThreadPool: more tasks than the queue and the        *)
(* workers can take in at once, so that every wait set is used.            *)
(***************************************************************************)
EXTENDS ThreadPool

CONSTANTS w1, w2, w3

ThreeWorkers == {w1, w2, w3}
=============================================================================
