----------------------------- MODULE TaskPool -----------------------------
(***************************************************************************)
(* What a ThreadPool does for its one client, without its mutex and its    *)
(* wait sets: tasks start in the order they were handed over, each runs    *)
(* once, never more than Workers at a time with at most Capacity of them   *)
(* pending, and wait() returns when nothing is pending or running.  The    *)
(* same holds of the destructor, as ThreadPool.cpp has it; its comment in  *)
(* ThreadPool.h says otherwise (run pool_destructor).                      *)
(***************************************************************************)
EXTENDS Integers, Sequences, FiniteSets

CONSTANTS NTasks, NWorkers, Capacity

VARIABLES pending, running, finished, client

vars == <<pending, running, finished, client>>

Tasks == 1 .. NTasks

Quiet == pending = <<>> /\ running = {}

Init ==
  /\ pending = <<>>
  /\ running = {}
  /\ finished = {}
  /\ client = "working"

(* The number of tasks handed over so far.                                 *)
Submitted == Len(pending) + Cardinality(running) + Cardinality(finished)

Submit ==
  /\ client = "working"
  /\ Submitted < NTasks
  /\ Len(pending) < Capacity
  /\ pending' = Append(pending, Submitted + 1)
  /\ UNCHANGED <<running, finished, client>>

Start ==
  /\ pending # <<>>
  /\ Cardinality(running) < NWorkers
  /\ pending' = Tail(pending)
  /\ running' = running \cup {Head(pending)}
  /\ UNCHANGED <<finished, client>>

End(t) ==
  /\ t \in running
  /\ running' = running \ {t}
  /\ finished' = finished \cup {t}
  /\ UNCHANGED <<pending, client>>

CallWait ==
  /\ client = "working"
  /\ client' = "waiting"
  /\ UNCHANGED <<pending, running, finished>>

WaitReturns ==
  /\ client = "waiting"
  /\ Quiet
  /\ client' = "working"
  /\ UNCHANGED <<pending, running, finished>>

Destroy ==
  /\ client = "working"
  /\ client' = "destroying"
  /\ UNCHANGED <<pending, running, finished>>

Destroyed ==
  /\ client = "destroying"
  /\ Quiet
  /\ client' = "destroyed"
  /\ UNCHANGED <<pending, running, finished>>

Next ==
  \/ Submit \/ Start \/ (\E t \in Tasks : End(t))
  \/ CallWait \/ WaitReturns \/ Destroy \/ Destroyed

Spec == Init /\ [][Next]_vars

FairSpec ==
  /\ Spec
  /\ WF_vars(Start)
  /\ \A t \in Tasks : WF_vars(End(t))
  /\ WF_vars(WaitReturns)
  /\ WF_vars(Destroyed)
=============================================================================
