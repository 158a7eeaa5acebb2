------------------------- MODULE ThreadPoolProofs -------------------------
(***************************************************************************)
(* Proofs about ThreadPool, for every set of workers, every capacity and   *)
(* every number of tasks.                                                  *)
(***************************************************************************)
EXTENDS ThreadPool, FiniteSetTheorems, TLAPS

(* How many workers are in one of the states S.                            *)
Count(S) == Cardinality({v \in Workers : worker[v] \in S})

LEMMA WorkersFinite ==
  ASSUME NEW S \in SUBSET Workers
  PROVE  IsFiniteSet(S) /\ Cardinality(S) \in Nat
BY PoolAssumption, FS_Subset, FS_CardinalityType

(* A worker that moves from state a to state b is counted accordingly.     *)
LEMMA GoCounts ==
  ASSUME TypeOK, NEW w \in Workers, NEW a, NEW b, Goes(w, a, b), NEW S
  PROVE  /\ Count(S) \in Nat /\ Count(S)' \in Nat
         /\ (a \in S <=> b \in S) => Count(S)' = Count(S)
         /\ a \notin S /\ b \in S => Count(S)' = Count(S) + 1
         /\ a \in S /\ b \notin S => Count(S)' = Count(S) - 1
<1> DEFINE Old == {v \in Workers : worker[v] \in S}
           New == {v \in Workers : worker'[v] \in S}
<1>1. Count(S) = Cardinality(Old) /\ Count(S)' = Cardinality(New)
  BY DEF Count
<1>2. worker[w] = a /\ worker'[w] = b
      /\ (\A v \in Workers : v # w => worker'[v] = worker[v])
  BY DEF TypeOK, Goes
<1>3. IsFiniteSet(Old) /\ Cardinality(Old) \in Nat /\ Cardinality(New) \in Nat
  BY WorkersFinite
<1>4. (a \in S <=> b \in S) => New = Old
  BY <1>2
<1>5. a \notin S /\ b \in S => w \notin Old /\ New = Old \cup {w}
  BY <1>2
<1>6. a \in S /\ b \notin S => w \in Old /\ New = Old \ {w}
  BY <1>2
<1> HIDE DEF Old, New
<1> QED BY <1>1, <1>3, <1>4, <1>5, <1>6, FS_AddElement, FS_RemoveElement

LEMMA CountIs ==
  /\ Cardinality(Busy) = Count({"took", "running", "ran"})
  /\ Cardinality(Busy)' = Count({"took", "running", "ran"})'
  /\ Cardinality(Checking) = Count({"check"})
  /\ Cardinality(Checking)' = Count({"check"})'
<1>1. /\ Checking = {v \in Workers : worker[v] \in {"check"}}
      /\ Checking' = {v \in Workers : worker'[v] \in {"check"}}
  BY DEF Checking
<1> QED BY <1>1 DEF Busy, Count

(* A wakeup may move workers from blocked to check, and nothing else.      *)
MayWake == \/ UNCHANGED worker
           \/ \E w \in Workers : Goes(w, "blocked", "check")
           \/ worker' = [w \in Workers |->
                           IF w \in Blocked THEN "check" ELSE worker[w]]

LEMMA WakeCounts ==
  ASSUME TypeOK, MayWake
  PROVE  /\ worker' \in [Workers -> WorkerStates]
         /\ Cardinality(Busy)' = Cardinality(Busy)
         /\ task' = task => Held' = Held
         /\ \A w \in Workers : worker'[w] = worker[w]
                \/ (worker[w] = "blocked" /\ worker'[w] = "check")
<1>1. \A v \in Workers : worker'[v] = worker[v]
                \/ (worker[v] = "blocked" /\ worker'[v] = "check")
  <2>1. ASSUME NEW w \in Workers, Goes(w, "blocked", "check"), NEW v \in Workers
        PROVE  worker'[v] = worker[v] \/ (worker[v] = "blocked" /\ worker'[v] = "check")
    BY <2>1 DEF Goes, TypeOK
  <2>2. ASSUME worker' = [w \in Workers |->
                            IF w \in Blocked THEN "check" ELSE worker[w]],
               NEW v \in Workers
        PROVE  worker'[v] = worker[v] \/ (worker[v] = "blocked" /\ worker'[v] = "check")
    BY <2>2 DEF Blocked
  <2> QED BY <2>1, <2>2 DEF MayWake
<1>2. Busy' = Busy
  BY <1>1 DEF Busy
<1>3. worker' \in [Workers -> WorkerStates]
  BY DEF MayWake, Goes, TypeOK, WorkerStates
<1>4. task' = task => Held' = Held
  BY <1>1 DEF Held
<1> QED BY <1>1, <1>2, <1>3, <1>4

(* Every step of the client, and every wakeup, leaves the workers' tasks   *)
(* alone; it may wake workers.                                             *)
ClientStep ==
  /\ MayWake
  /\ UNCHANGED <<active_tasks, task, finished>>
  /\ \/ UNCHANGED <<tasks, sent>>
     \/ /\ Len(tasks) < QueueCapacity
        /\ sent < NTasks
        /\ tasks' = Append(tasks, sent + 1)
        /\ sent' = sent + 1

(* The client is inside enqueue() only with a task left to hand over.      *)
EnqueueHasTask == client \in {"enqueue", "enqueue_blocked"} => sent < NTasks

LEMMA ClientSteps ==
  ASSUME TypeOK, EnqueueHasTask, Calls \/ InsideCall \/ SpuriousWakeup \/ UNCHANGED vars
  PROVE  ClientStep /\ client' \in ClientStates /\ stop' \in BOOLEAN /\ EnqueueHasTask'
<1> USE DEF ClientStates, EnqueueHasTask, TypeOK
<1>1. CASE CallEnqueue \/ CallWait \/ Destroy \/ UNCHANGED vars
  BY <1>1 DEF CallEnqueue, CallWait, Destroy, vars, ClientStep, MayWake, ClientGoes
<1>2. CASE EnqueueBlocks \/ WaitBlocks \/ WaitReturns \/ Join
  BY <1>2 DEF EnqueueBlocks, WaitBlocks, WaitReturns, Join, ClientStep, MayWake, ClientGoes
<1>3. CASE EnqueuePushes
  BY <1>3 DEF EnqueuePushes, ClientStep, MayWake, ClientGoes
<1>4. CASE EnqueueNotifies \/ SpuriousWakeup
  BY <1>4 DEF EnqueueNotifies, SpuriousWakeup, ClientStep, MayWake, ClientGoes, Blocked
<1>5. CASE StopNotifies
  BY <1>5 DEF StopNotifies, ClientStep, MayWake, ClientGoes
<1> QED BY <1>1, <1>2, <1>3, <1>4, <1>5 DEF Calls, InsideCall

(* What the type invariant needs to be inductive.                          *)
TypeInv ==
  /\ TypeOK
  /\ EnqueueHasTask
  /\ ActiveIsBusy
  /\ \A w \in Workers : worker[w] \in {"took", "running", "ran"} <=> task[w] # NoTask

LEMMA TypeInit == Init => TypeInv
<1> SUFFICES ASSUME Init PROVE TypeInv
  OBVIOUS
<1> USE PoolAssumption DEF Init
<1>1. Busy = {}
  BY DEF Busy
<1>2. ActiveIsBusy
  BY <1>1, FS_EmptySet DEF ActiveIsBusy
<1>3. tasks \in Seq(Tasks) /\ Len(tasks) <= QueueCapacity /\ active_tasks \in Nat
  OBVIOUS
<1>4. /\ worker \in [Workers -> WorkerStates]
      /\ task \in [Workers -> Tasks \cup {NoTask}]
      /\ client \in ClientStates /\ client = "idle"
  BY DEF WorkerStates, ClientStates
<1>5. sent \in 0 .. NTasks /\ finished \subseteq Tasks /\ stop = FALSE
  OBVIOUS
<1>6. TypeOK
  BY <1>3, <1>4, <1>5 DEF TypeOK
<1>7. \A w \in Workers : worker[w] \in {"took", "running", "ran"} <=> task[w] # NoTask
  OBVIOUS
<1> QED BY <1>2, <1>4, <1>6, <1>7 DEF TypeInv, EnqueueHasTask

LEMMA TypeStep == TypeInv /\ [Next]_vars => TypeInv'
<1> SUFFICES ASSUME TypeInv, [Next]_vars PROVE TypeInv'
  OBVIOUS
<1> USE PoolAssumption DEF TypeInv
<1>1. CASE Calls \/ InsideCall \/ SpuriousWakeup \/ UNCHANGED vars
  <2>1. ClientStep /\ client' \in ClientStates /\ stop' \in BOOLEAN /\ EnqueueHasTask'
    BY <1>1, ClientSteps
  <2>2. /\ worker' \in [Workers -> WorkerStates]
        /\ Cardinality(Busy)' = Cardinality(Busy)
        /\ \A w \in Workers : worker'[w] = worker[w]
                \/ (worker[w] = "blocked" /\ worker'[w] = "check")
    BY <2>1, WakeCounts DEF ClientStep
  <2>3. tasks' \in Seq(Tasks) /\ Len(tasks') <= QueueCapacity /\ sent' \in 0 .. NTasks
    <3>1. CASE UNCHANGED <<tasks, sent>>
      BY <3>1 DEF TypeOK
    <3>2. CASE /\ Len(tasks) < QueueCapacity /\ sent < NTasks
               /\ tasks' = Append(tasks, sent + 1) /\ sent' = sent + 1
      <4>1. sent \in Int /\ sent + 1 \in Tasks /\ sent' \in 0 .. NTasks
        BY <3>2 DEF TypeOK, Tasks
      <4>2. tasks' \in Seq(Tasks) /\ Len(tasks') = Len(tasks) + 1
        BY <3>2, <4>1 DEF TypeOK
      <4>3. Len(tasks) \in Nat
        BY DEF TypeOK
      <4> QED BY <3>2, <4>1, <4>2, <4>3
    <3> QED BY <2>1, <3>1, <3>2 DEF ClientStep
  <2>4. TypeOK' /\ ActiveIsBusy'
    BY <2>1, <2>2, <2>3 DEF ClientStep, TypeOK, ActiveIsBusy
  <2> QED BY <2>1, <2>2, <2>4 DEF ClientStep
<1>2. ASSUME NEW w \in Workers, Worker(w) PROVE TypeInv'
  <2> USE <1>2
  <2>1. worker' \in [Workers -> WorkerStates]
        /\ \A v \in Workers : v # w => worker'[v] = worker[v]
    BY DEF Worker, WorkerBlocks, WorkerExits, WorkerTakes, WorkerNotifies, WorkerRuns,
       WorkerReleases, Goes, TypeOK, WorkerStates
  <2>2. client' \in ClientStates /\ EnqueueHasTask' /\ sent' = sent /\ stop' = stop
    BY DEF Worker, WorkerBlocks, WorkerExits, WorkerTakes, WorkerNotifies, WorkerRuns,
       WorkerReleases, TypeOK, ClientStates, EnqueueHasTask
  <2>3. CASE WorkerBlocks(w) \/ WorkerExits(w)
    <3>1. Cardinality(Busy)' = Cardinality(Busy)
      BY <2>3, GoCounts, CountIs DEF WorkerBlocks, WorkerExits
    <3> QED BY <2>1, <2>2, <2>3, <3>1
        DEF WorkerBlocks, WorkerExits, Goes, TypeOK, ActiveIsBusy
  <2>4. CASE WorkerTakes(w)
    <3>1. Cardinality(Busy)' = Cardinality(Busy) + 1
      BY <2>4, GoCounts, CountIs DEF WorkerTakes
    <3>2. /\ tasks' \in Seq(Tasks) /\ Len(tasks') <= QueueCapacity
          /\ Head(tasks) \in Tasks /\ Head(tasks) # NoTask
      BY <2>4 DEF WorkerTakes, TypeOK, Tasks, NoTask
    <3> QED BY <2>1, <2>2, <2>4, <3>1, <3>2 DEF WorkerTakes, Goes, TypeOK, ActiveIsBusy
  <2>5. CASE WorkerNotifies(w) \/ WorkerRuns(w)
    <3>1. Cardinality(Busy)' = Cardinality(Busy)
      BY <2>5, GoCounts, CountIs DEF WorkerNotifies, WorkerRuns
    <3>2. finished' \subseteq Tasks
      BY <2>5 DEF WorkerNotifies, WorkerRuns, Goes, TypeOK
    <3> QED BY <2>1, <2>2, <2>5, <3>1, <3>2
        DEF WorkerNotifies, WorkerRuns, Goes, TypeOK, ActiveIsBusy
  <2>6. CASE WorkerReleases(w)
    <3>1. Cardinality(Busy)' = Cardinality(Busy) - 1
          /\ Cardinality(Busy) \in Nat /\ Cardinality(Busy)' \in Nat
      BY <2>6, GoCounts, CountIs DEF WorkerReleases
    <3> QED BY <2>1, <2>2, <2>6, <3>1 DEF WorkerReleases, Goes, TypeOK, ActiveIsBusy
  <2> QED BY <2>3, <2>4, <2>5, <2>6 DEF Worker
<1> QED BY <1>1, <1>2 DEF Next, Terminated

(* Every variable of the pool keeps its type; the queue never outgrows its *)
(* capacity, and the unsigned counter active_tasks_ never wraps below 0.   *)
THEOREM TypeCorrect == Spec => []TypeOK
<1>1. TypeInv => TypeOK
  BY DEF TypeInv
<1> QED BY <1>1, TypeInit, TypeStep, PTL DEF Spec

(* active_tasks_ is the number of workers between the critical sections    *)
(* that take a task and release it, so wait() tests what it means to test. *)
THEOREM ActiveCounts == Spec => []ActiveIsBusy
<1>1. TypeInv => ActiveIsBusy
  BY DEF TypeInv
<1> QED BY <1>1, TypeInit, TypeStep, PTL DEF Spec
-----------------------------------------------------------------------------
LEMMA StrandedStep ==
  ASSUME TypeInv, NoTaskStranded, [Next]_vars
  PROVE  NoTaskStranded'
<1> USE DEF TypeInv, NotifyPending
<1>0. /\ Cardinality(Checking) \in Nat /\ Len(tasks) \in Nat
      /\ Cardinality(Checking') \in Nat
  BY WorkersFinite DEF Checking, TypeOK
<1>1. CASE \/ CallEnqueue \/ CallWait \/ Destroy \/ UNCHANGED vars
           \/ EnqueueBlocks \/ WaitBlocks \/ WaitReturns \/ Join
  <2>1. Checking' = Checking /\ Blocked' = Blocked /\ tasks' = tasks
        /\ (client = "notify" <=> client' = "notify")
    BY <1>1 DEF CallEnqueue, CallWait, Destroy, vars, EnqueueBlocks, WaitBlocks,
       WaitReturns, Join, ClientGoes, Checking, Blocked
  <2> QED BY <2>1 DEF NoTaskStranded
<1>2. CASE EnqueuePushes
  <2>1. Checking' = Checking /\ Blocked' = Blocked /\ Len(tasks') = Len(tasks) + 1
        /\ client # "notify" /\ client' = "notify"
    BY <1>2 DEF EnqueuePushes, ClientGoes, Checking, Blocked, TypeOK
  <2> QED BY <1>0, <2>1 DEF NoTaskStranded
<1>3. CASE EnqueueNotifies
  <2>1. client = "notify" /\ client' # "notify" /\ tasks' = tasks
    BY <1>3 DEF EnqueueNotifies, ClientGoes
  <2>2. CASE Blocked = {} /\ UNCHANGED worker
    BY <2>2 DEF NoTaskStranded, Blocked
  <2>3. ASSUME NEW w \in Blocked, Goes(w, "blocked", "check") PROVE NoTaskStranded'
    <3>1. Cardinality(Checking)' = Cardinality(Checking) + 1
      BY <2>3, GoCounts, CountIs DEF Blocked
    <3> QED BY <1>0, <2>1, <2>3, <3>1 DEF NoTaskStranded
  <2> QED BY <1>3, <2>2, <2>3 DEF EnqueueNotifies
<1>4. CASE StopNotifies
  <2>1. Blocked' = {}
    BY <1>4 DEF StopNotifies, Blocked
  <2> QED BY <2>1 DEF NoTaskStranded
<1>5. CASE SpuriousWakeup
  <2>1. tasks' = tasks /\ (client = "notify" <=> client' = "notify")
    BY <1>5 DEF SpuriousWakeup, ClientGoes
  <2>2. CASE UNCHANGED worker
    BY <2>1, <2>2 DEF NoTaskStranded, Blocked, Checking
  <2>3. ASSUME NEW w \in Workers, Goes(w, "blocked", "check") PROVE NoTaskStranded'
    <3>1. Cardinality(Checking)' = Cardinality(Checking) + 1
      BY <2>3, GoCounts, CountIs
    <3>2. w \in Blocked
      BY <2>3 DEF Goes, Blocked
    <3> QED BY <1>0, <2>1, <3>1, <3>2 DEF NoTaskStranded
  <2> QED BY <1>5, <2>2, <2>3 DEF SpuriousWakeup
<1>6. ASSUME NEW w \in Workers, WorkerBlocks(w) \/ WorkerExits(w) PROVE NoTaskStranded'
  BY <1>0, <1>6 DEF WorkerBlocks, WorkerExits, NoTaskStranded
<1>7. ASSUME NEW w \in Workers, WorkerTakes(w) PROVE NoTaskStranded'
  <2>1. Cardinality(Checking)' = Cardinality(Checking) - 1
    BY <1>7, GoCounts, CountIs DEF WorkerTakes
  <2>2. Len(tasks') = Len(tasks) - 1 /\ client' = client
    BY <1>7 DEF WorkerTakes, TypeOK
  <2>3. Blocked' = Blocked
    BY <1>7 DEF WorkerTakes, Blocked, Goes, TypeOK
  <2> QED BY <1>0, <2>1, <2>2, <2>3 DEF NoTaskStranded
<1>8. ASSUME NEW w \in Workers, WorkerNotifies(w) \/ WorkerRuns(w) \/ WorkerReleases(w)
      PROVE  NoTaskStranded'
  <2>1. /\ tasks' = tasks /\ Blocked' = Blocked
        /\ (client = "notify" <=> client' = "notify")
    BY <1>8 DEF WorkerNotifies, WorkerRuns, WorkerReleases, Blocked, Goes, TypeOK
  <2>2. Cardinality(Checking)' >= Cardinality(Checking)
    <3>1. Count({"check"})' >= Count({"check"})
      <4>1. PICK from \in {"took", "running", "ran"}, to \in {"running", "ran", "check"} :
              Goes(w, from, to)
        BY <1>8 DEF WorkerNotifies, WorkerRuns, WorkerReleases
      <4>2. from \notin {"check"}
        OBVIOUS
      <4> QED BY <4>1, <4>2, GoCounts
    <3> QED BY <3>1, CountIs
  <2> QED BY <1>0, <2>1, <2>2 DEF NoTaskStranded
<1> QED BY <1>1, <1>2, <1>3, <1>4, <1>5, <1>6, <1>7, <1>8
    DEF Next, Calls, InsideCall, Worker, Terminated

(* No wakeup is lost: whenever a worker sleeps, every queued task has a    *)
(* worker on its way to it or a notify_one still to come.                  *)
THEOREM NoLostWakeup == Spec => []NoTaskStranded
<1>1. Init => NoTaskStranded
  BY DEF Init, NoTaskStranded, Blocked
<1>2. TypeInv /\ NoTaskStranded /\ [Next]_vars => NoTaskStranded'
  BY StrandedStep
<1> QED BY <1>1, <1>2, TypeInit, TypeStep, PTL DEF Spec
-----------------------------------------------------------------------------
(* Once stop_ is set nothing is queued, and a worker leaves only when the  *)
(* queue is empty.                                                         *)
StopIsFinal ==
  /\ stop <=> client \in {"stopping", "joining", "destroyed"}
  /\ \A w \in Workers : worker[w] = "exited" => stop /\ tasks = <<>>
  /\ client = "destroyed" => \A w \in Workers : worker[w] = "exited"

LEMMA StopStep ==
  ASSUME TypeInv, StopIsFinal, [Next]_vars
  PROVE  StopIsFinal'
<1> USE DEF TypeInv, StopIsFinal
<1>1. CASE \/ CallEnqueue \/ CallWait \/ Destroy \/ UNCHANGED vars
           \/ EnqueueBlocks \/ WaitBlocks \/ WaitReturns \/ Join
  BY <1>1 DEF CallEnqueue, CallWait, Destroy, vars, EnqueueBlocks, WaitBlocks,
     WaitReturns, Join, ClientGoes
<1>2. CASE EnqueuePushes
  BY <1>2 DEF EnqueuePushes, ClientGoes
<1>3. CASE EnqueueNotifies \/ SpuriousWakeup \/ StopNotifies
  <2>1. MayWake
    BY <1>3 DEF EnqueueNotifies, SpuriousWakeup, StopNotifies, MayWake, Blocked
  <2>2. \A w \in Workers : worker'[w] = worker[w]
                \/ (worker[w] = "blocked" /\ worker'[w] = "check")
    BY <2>1, WakeCounts
  <2> QED BY <1>3, <2>2 DEF EnqueueNotifies, SpuriousWakeup, StopNotifies, ClientGoes
<1>4. ASSUME NEW w \in Workers, Worker(w) PROVE StopIsFinal'
  <2>1. /\ stop' = stop
        /\ client' = client \/ (client = "enqueue_blocked" /\ client' = "enqueue")
                             \/ (client = "wait_blocked" /\ client' = "wait")
        /\ worker[w] # "exited"
        /\ \A v \in Workers : v # w => worker'[v] = worker[v]
        /\ worker'[w] = "exited" => stop /\ tasks = <<>>
        /\ tasks = <<>> => tasks' = <<>>
    BY <1>4 DEF Worker, WorkerBlocks, WorkerExits, WorkerTakes, WorkerNotifies,
       WorkerRuns, WorkerReleases, Goes, TypeOK
  <2>2. client # "destroyed"
    BY <1>4, <2>1
  <2> QED BY <2>1, <2>2
<1> QED BY <1>1, <1>2, <1>3, <1>4 DEF Next, Calls, InsideCall, Terminated

(* A task handed over is in one place.                                     *)
LEMMA OnceStep ==
  ASSUME TypeInv, EachTaskOnce, [Next]_vars
  PROVE  EachTaskOnce'
<1> USE DEF TypeInv
<1>1. CASE Calls \/ InsideCall \/ SpuriousWakeup \/ UNCHANGED vars
  <2>1. ClientStep
    BY <1>1, ClientSteps
  <2>2. /\ Held' = Held
        /\ \A w \in Workers : worker'[w] = worker[w]
                \/ (worker[w] = "blocked" /\ worker'[w] = "check")
    BY <2>1, WakeCounts DEF ClientStep
  <2>3. sent - Len(tasks) = sent' - Len(tasks')
        /\ \A i \in DOMAIN tasks' : tasks'[i] = sent' - Len(tasks') + i
    <3>1. CASE UNCHANGED <<tasks, sent>>
      BY <3>1 DEF EachTaskOnce
    <3>2. CASE tasks' = Append(tasks, sent + 1) /\ sent' = sent + 1
      <4>1. /\ Len(tasks') = Len(tasks) + 1 /\ Len(tasks) \in Nat /\ sent \in Nat
            /\ DOMAIN tasks = 1 .. Len(tasks) /\ DOMAIN tasks' = 1 .. Len(tasks')
            /\ tasks'[Len(tasks')] = sent + 1
            /\ \A i \in 1 .. Len(tasks) : tasks'[i] = tasks[i]
        BY <3>2 DEF TypeOK
      <4>2. \A i \in 1 .. Len(tasks) : tasks[i] = sent - Len(tasks) + i
        BY <4>1 DEF EachTaskOnce
      <4> QED BY <3>2, <4>1, <4>2
    <3> QED BY <2>1, <3>1, <3>2 DEF ClientStep
  <2> QED BY <2>1, <2>2, <2>3 DEF EachTaskOnce, ClientStep
<1>2. ASSUME NEW w \in Workers, WorkerTakes(w) PROVE EachTaskOnce'
  <2> DEFINE n == sent - Len(tasks)
  <2>1. /\ worker[w] = "check" /\ worker' = [worker EXCEPT ![w] = "took"]
        /\ task' = [task EXCEPT ![w] = Head(tasks)]
        /\ sent' = sent /\ finished' = finished
    BY <1>2 DEF WorkerTakes, Goes
  <2>2. /\ Len(tasks) \in Nat \ {0} /\ sent \in Nat
        /\ DOMAIN tasks = 1 .. Len(tasks) /\ DOMAIN tasks' = 1 .. Len(tasks')
        /\ \A i \in 1 .. Len(tasks') : tasks'[i] = tasks[i + 1]
        /\ Len(tasks') = Len(tasks) - 1 /\ Head(tasks) = tasks[1]
    BY <1>2 DEF WorkerTakes, TypeOK
  <2> DEFINE size == Len(tasks)
             size2 == Len(tasks')
  <2>3. /\ Head(tasks) = n + 1
        /\ \A i \in DOMAIN tasks' : tasks'[i] = sent' - size2 + i
    <3>1. /\ size \in Nat \ {0} /\ size2 = size - 1 /\ sent \in Nat
          /\ \A i \in 1 .. size : tasks[i] = sent - size + i
      BY <2>2 DEF EachTaskOnce
    <3>2. Head(tasks) = n + 1
      BY <2>2, <3>1
    <3>3. ASSUME NEW i \in 1 .. size2 PROVE tasks'[i] = sent - size2 + i
      <4>1. i + 1 \in 1 .. size /\ tasks'[i] = tasks[i + 1]
        BY <2>2, <3>1
      <4> HIDE DEF size, size2
      <4> QED BY <3>1, <4>1
    <3> QED BY <2>1, <2>2, <3>2, <3>3
  <2>4. Held' = Held \cup {n + 1}
    BY <2>1, <2>3 DEF Held, TypeOK
  <2>5. n \in Int /\ 1 .. n = Held \cup finished
    BY <2>2 DEF EachTaskOnce
  <2>6. n + 1 \notin Held /\ n + 1 \notin finished
    BY <2>5
  <2>7. 1 .. n + 1 = Held' \cup finished'
    <3>1. n >= 0
      <4>1. 1 \in 1 .. Len(tasks) /\ tasks[1] \in Tasks
        BY <2>2 DEF TypeOK
      <4> QED BY <2>2, <2>3, <4>1, <2>5 DEF Tasks
    <3> QED BY <2>1, <2>4, <2>5, <3>1
  <2>8. \A v \in Workers : worker[v] \in {"took", "running"} => task[v] # n + 1
    BY <2>6 DEF Held
  <2> QED BY <2>1, <2>2, <2>3, <2>4, <2>6, <2>7, <2>8 DEF EachTaskOnce, TypeOK
<1>3. ASSUME NEW w \in Workers, WorkerRuns(w) PROVE EachTaskOnce'
  <2>1. /\ worker[w] = "running" /\ worker' = [worker EXCEPT ![w] = "ran"]
        /\ UNCHANGED <<tasks, task, sent>> /\ finished' = finished \cup {task[w]}
    BY <1>3 DEF WorkerRuns, Goes
  <2>2. Held = Held' \cup {task[w]} /\ task[w] \notin Held'
    BY <2>1 DEF Held, EachTaskOnce, TypeOK
  <2> QED BY <2>1, <2>2 DEF EachTaskOnce, TypeOK
<1>4. ASSUME NEW w \in Workers,
             \/ WorkerBlocks(w) \/ WorkerExits(w) \/ WorkerNotifies(w) \/ WorkerReleases(w)
      PROVE  EachTaskOnce'
  <2>1. /\ UNCHANGED <<tasks, sent, finished>>
        /\ \A v \in Workers : worker'[v] \in {"took", "running"} <=>
                              worker[v] \in {"took", "running"}
        /\ \A v \in Workers : worker[v] \in {"took", "running"} => task'[v] = task[v]
    BY <1>4 DEF WorkerBlocks, WorkerExits, WorkerNotifies, WorkerReleases, Goes, TypeOK
  <2>2. Held' = Held
    BY <2>1 DEF Held
  <2> QED BY <2>1, <2>2 DEF EachTaskOnce
<1> QED BY <1>1, <1>2, <1>3, <1>4 DEF Next, Worker, Terminated

LEMMA OnceInit == Init => EachTaskOnce /\ StopIsFinal
<1> SUFFICES ASSUME Init PROVE EachTaskOnce /\ StopIsFinal
  OBVIOUS
<1>1. Held = {}
  BY DEF Init, Held
<1>2. EachTaskOnce
  BY <1>1 DEF Init, EachTaskOnce
<1> QED BY <1>2 DEF Init, StopIsFinal

(* No task is lost and none runs twice.                                    *)
THEOREM TasksRunOnce == Spec => []EachTaskOnce
<1>1. TypeInv /\ EachTaskOnce /\ [Next]_vars => EachTaskOnce'
  BY OnceStep
<1>2. Init => EachTaskOnce
  BY OnceInit
<1> QED BY <1>1, <1>2, TypeInit, TypeStep, PTL DEF Spec

(* An idle pool has run everything it was given.                           *)
LEMMA QuietMeansFinished ==
  ASSUME TypeInv, EachTaskOnce, tasks = <<>>, Held = {}
  PROVE  finished = 1 .. sent
BY DEF TypeInv, TypeOK, EachTaskOnce

(* wait() is a barrier: it returns only when every task handed over ran.   *)
THEOREM WaitReturnsAfterAll == Spec => WaitIsBarrier
<1>1. TypeInv /\ EachTaskOnce /\ [Next]_vars => [WaitReturns => finished = 1 .. sent]_vars
  <2> SUFFICES ASSUME TypeInv, EachTaskOnce, WaitReturns
               PROVE  finished = 1 .. sent
    OBVIOUS
  <2>1. tasks = <<>> /\ Cardinality(Busy) = 0
    BY DEF WaitReturns, AllDone, TypeInv, ActiveIsBusy
  <2>2. Busy = {}
    BY <2>1, WorkersFinite, FS_EmptySet DEF Busy
  <2>3. Held = {}
    BY <2>2 DEF Held, Busy
  <2> QED BY <2>1, <2>3, QuietMeansFinished
<1>2. TypeInv /\ EachTaskOnce /\ [Next]_vars => EachTaskOnce'
  BY OnceStep
<1>3. Init => EachTaskOnce
  BY OnceInit
<1> QED BY <1>1, <1>2, <1>3, TypeInit, TypeStep, PTL DEF Spec, WaitIsBarrier

-----------------------------------------------------------------------------
LEMMA StrandedClientStep ==
  ASSUME TypeInv, ClientNotStranded, [Next]_vars
  PROVE  ClientNotStranded'
<1> USE DEF ClientNotStranded, AllDone
<1>1. CASE \/ CallEnqueue \/ CallWait \/ Destroy \/ UNCHANGED vars
           \/ EnqueueBlocks \/ WaitBlocks \/ WaitReturns \/ Join \/ EnqueuePushes
  BY <1>1 DEF CallEnqueue, CallWait, Destroy, vars, EnqueueBlocks, WaitBlocks,
     WaitReturns, Join, EnqueuePushes, ClientGoes
<1>2. CASE EnqueueNotifies \/ StopNotifies
  BY <1>2 DEF EnqueueNotifies, StopNotifies, ClientGoes
<1>3. CASE SpuriousWakeup
  <2>1. MayWake
    BY <1>3 DEF SpuriousWakeup, MayWake
  <2>2. \A w \in Workers : worker[w] = "took" => worker'[w] = "took"
    BY <2>1, WakeCounts DEF TypeInv
  <2> QED BY <1>3, <2>2 DEF SpuriousWakeup, ClientGoes
<1>4. ASSUME NEW w \in Workers, WorkerTakes(w) PROVE ClientNotStranded'
  <2>1. worker'[w] = "took" /\ active_tasks' # 0 /\ client' = client
    BY <1>4 DEF WorkerTakes, Goes, TypeInv, TypeOK
  <2> QED BY <2>1
<1>5. ASSUME NEW w \in Workers, WorkerNotifies(w) PROVE ClientNotStranded'
  BY <1>5 DEF WorkerNotifies, Goes
<1>6. ASSUME NEW w \in Workers,
             WorkerBlocks(w) \/ WorkerExits(w) \/ WorkerRuns(w) \/ WorkerReleases(w)
      PROVE  ClientNotStranded'
  <2>1. \A v \in Workers : worker[v] = "took" => worker'[v] = "took"
    BY <1>6 DEF WorkerBlocks, WorkerExits, WorkerRuns, WorkerReleases, Goes, TypeInv, TypeOK
  <2> QED BY <1>6, <2>1 DEF WorkerBlocks, WorkerExits, WorkerRuns, WorkerReleases
<1> QED BY <1>1, <1>2, <1>3, <1>4, <1>5, <1>6 DEF Next, Calls, InsideCall, Worker, Terminated

(* While the client sleeps there is somebody to wake it: a full queue or a *)
(* worker about to notify in enqueue(), a task in wait().                  *)
THEOREM ClientIsWoken == Spec => []ClientNotStranded
<1>1. Init => ClientNotStranded
  BY DEF Init, ClientNotStranded
<1>2. TypeInv /\ ClientNotStranded /\ [Next]_vars => ClientNotStranded'
  BY StrandedClientStep
<1> QED BY <1>1, <1>2, TypeInit, TypeStep, PTL DEF Spec
-----------------------------------------------------------------------------
(* ThreadPool implements TaskPool: the abstract pool counts what it has    *)
(* been handed as sent does, and a worker that takes a task was idle.      *)
LEMMA SameCardinality == ASSUME NEW S PROVE Promise!Cardinality(S) = Cardinality(S)
BY DEF Promise!Cardinality, Cardinality

LEMMA HeldSize ==
  ASSUME TypeInv, EachTaskOnce
  PROVE  /\ Promise!Submitted = sent
         /\ \A w \in Workers : worker[w] = "check" => Cardinality(Held) < Cardinality(Workers)
<1>0. /\ sent \in Nat /\ Len(tasks) \in Nat
      /\ task \in [Workers -> Tasks \cup {NoTask}]
  BY DEF TypeInv, TypeOK
<1>1. sent - Len(tasks) >= 0
  <2>1. CASE Len(tasks) = 0
    BY <1>0, <2>1
  <2>2. CASE Len(tasks) > 0
    <3>1. 1 \in DOMAIN tasks /\ tasks[1] \in Tasks
      BY <2>2 DEF TypeInv, TypeOK
    <3>2. tasks[1] = sent - Len(tasks) + 1
      BY <3>1 DEF EachTaskOnce
    <3> QED BY <1>0, <3>1, <3>2 DEF Tasks
  <2> QED BY <1>0, <2>1, <2>2
<1>2. /\ IsFiniteSet(1 .. sent - Len(tasks))
      /\ Cardinality(1 .. sent - Len(tasks)) = sent - Len(tasks)
  <2> DEFINE n == sent - Len(tasks)
  <2>1. n \in Int /\ n >= 0
    BY <1>0, <1>1
  <2> HIDE DEF n
  <2>2. IsFiniteSet(1 .. n) /\ Cardinality(1 .. n) = IF 1 > n THEN 0 ELSE n - 1 + 1
    BY <2>1, FS_Interval
  <2>3. IsFiniteSet(1 .. n) /\ Cardinality(1 .. n) = n
    BY <2>1, <2>2
  <2> QED BY <2>3 DEF n
<1>3. IsFiniteSet(Held) /\ IsFiniteSet(finished)
  BY <1>2, FS_Subset DEF EachTaskOnce
<1>4. Cardinality(Held) + Cardinality(finished) = sent - Len(tasks)
  <2>1. Held \cap finished = {} /\ Held \cup finished = 1 .. sent - Len(tasks)
    BY DEF EachTaskOnce
  <2>2. Cardinality(Held \cap finished) = 0
    BY <2>1, FS_EmptySet
  <2>3. Cardinality(Held) \in Nat /\ Cardinality(finished) \in Nat
    BY <1>3, FS_CardinalityType
  <2>4. Cardinality(Held \cup finished)
          = Cardinality(Held) + Cardinality(finished) - Cardinality(Held \cap finished)
    BY <1>3, FS_Union
  <2>5. Cardinality(Held \cup finished) = sent - Len(tasks)
    BY <1>2, <2>1
  <2> QED BY <1>0, <2>2, <2>3, <2>4, <2>5
<1>5. Promise!Submitted = sent
  <2>1. Cardinality(Held) \in Nat /\ Cardinality(finished) \in Nat
    BY <1>3, FS_CardinalityType
  <2>2. Len(tasks) + Cardinality(Held) + Cardinality(finished) = sent
    BY <1>0, <1>4, <2>1
  <2> QED BY <2>2, SameCardinality DEF Promise!Submitted
<1>6. ASSUME NEW w \in Workers, worker[w] = "check"
      PROVE  Cardinality(Held) < Cardinality(Workers)
  <2> DEFINE holders == {v \in Workers : worker[v] \in {"took", "running"}}
             holds == [v \in holders |-> task[v]]
  <2>1. holders \subseteq Workers \ {w}
    BY <1>6
  <2>2. /\ IsFiniteSet(Workers \ {w}) /\ Cardinality(Workers \ {w}) = Cardinality(Workers) - 1
        /\ Cardinality(Workers) \in Nat
    BY PoolAssumption, FS_RemoveElement, FS_CardinalityType
  <2>3. IsFiniteSet(holders) /\ Cardinality(holders) <= Cardinality(Workers) - 1
    BY <2>1, <2>2, FS_Subset
  <2>4. holds \in Surjection(holders, Held)
    BY DEF Held, Surjection
  <2>5. Cardinality(Held) <= Cardinality(holders)
    <3> HIDE DEF holders, holds
    <3> QED BY <2>3, <2>4, FS_Surjection
  <2>6. Cardinality(Held) \in Nat /\ Cardinality(holders) \in Nat
    BY <1>3, <2>3, FS_CardinalityType
  <2> QED BY <2>2, <2>3, <2>5, <2>6
<1> QED BY <1>5, <1>6

LEMMA PromiseStep ==
  ASSUME TypeInv, EachTaskOnce, StopIsFinal, [Next]_vars
  PROVE  [Promise!Next]_(Promise!vars)
<1> USE DEF Promise!Next, Promise!vars
<1>1. CASE CallEnqueue \/ EnqueueBlocks \/ WaitBlocks \/ UNCHANGED vars
  BY <1>1 DEF CallEnqueue, EnqueueBlocks, WaitBlocks, vars, ClientGoes, ClientView, Held
<1>2. CASE EnqueueNotifies \/ SpuriousWakeup \/ StopNotifies
  <2>1. Held' = Held
    <3>1. MayWake /\ task' = task
      BY <1>2 DEF EnqueueNotifies, SpuriousWakeup, StopNotifies, MayWake, Blocked
    <3> QED BY <3>1, WakeCounts DEF TypeInv
  <2> QED BY <1>2, <2>1
      DEF EnqueueNotifies, SpuriousWakeup, StopNotifies, ClientGoes, ClientView
<1>3. CASE CallWait
  BY <1>3 DEF CallWait, ClientGoes, ClientView, Held, Promise!CallWait
<1>4. CASE Destroy
  BY <1>4 DEF Destroy, ClientGoes, ClientView, Held, Promise!Destroy
<1>5. CASE EnqueuePushes
  <2>1. Promise!Submitted = sent /\ sent < NTasks
    BY <1>5, HeldSize DEF EnqueuePushes, ClientGoes, TypeInv, EnqueueHasTask
  <2> QED BY <1>5, <2>1
      DEF EnqueuePushes, ClientGoes, ClientView, Held, Promise!Submit
<1>6. CASE WaitReturns
  <2>1. Busy = {}
    BY <1>6, WorkersFinite, FS_EmptySet DEF Busy, WaitReturns, AllDone, TypeInv, ActiveIsBusy
  <2>2. Held = {}
    BY <2>1 DEF Held, Busy
  <2> QED BY <1>6, <2>2
      DEF WaitReturns, AllDone, ClientGoes, ClientView, Held, Promise!WaitReturns, Promise!Quiet
<1>7. CASE Join
  <2>1. Held = {} /\ tasks = <<>>
    BY <1>7, PoolAssumption DEF Join, StopIsFinal, Held
  <2> QED BY <1>7, <2>1 DEF Join, ClientGoes, ClientView, Held, Promise!Destroyed, Promise!Quiet
<1>8. ASSUME NEW w \in Workers, WorkerTakes(w) PROVE Promise!Start
  <2>1. /\ worker[w] = "check" /\ worker' = [worker EXCEPT ![w] = "took"]
        /\ task' = [task EXCEPT ![w] = Head(tasks)]
        /\ tasks # <<>> /\ tasks' = Tail(tasks) /\ UNCHANGED <<client, finished>>
    BY <1>8 DEF WorkerTakes, Goes
  <2>2. Held' = Held \cup {Head(tasks)}
    BY <2>1 DEF Held, TypeInv, TypeOK
  <2>3. Cardinality(Held) < Cardinality(Workers)
    BY <2>1, HeldSize
  <2>4. ClientView' = ClientView
    BY <2>1 DEF ClientView
  <2> QED BY <2>1, <2>2, <2>3, <2>4, SameCardinality DEF Promise!Start
<1>9. ASSUME NEW w \in Workers, WorkerRuns(w) PROVE \E t \in Tasks : Promise!End(t)
  <2>1. /\ worker[w] = "running" /\ worker' = [worker EXCEPT ![w] = "ran"]
        /\ UNCHANGED <<tasks, task, client>> /\ finished' = finished \cup {task[w]}
    BY <1>9 DEF WorkerRuns, Goes
  <2>2. task[w] \in Held /\ task[w] \in Tasks /\ Held' = Held \ {task[w]}
    BY <2>1 DEF Held, EachTaskOnce, TypeInv, TypeOK
  <2> QED BY <2>1, <2>2 DEF Promise!End, ClientView
<1>10. ASSUME NEW w \in Workers,
              \/ WorkerBlocks(w) \/ WorkerExits(w) \/ WorkerNotifies(w) \/ WorkerReleases(w)
       PROVE  UNCHANGED Promise!vars
  <2>1. /\ UNCHANGED <<tasks, finished>>
        /\ \A v \in Workers : worker'[v] \in {"took", "running"} <=>
                              worker[v] \in {"took", "running"}
        /\ \A v \in Workers : worker[v] \in {"took", "running"} => task'[v] = task[v]
    BY <1>10 DEF WorkerBlocks, WorkerExits, WorkerNotifies, WorkerReleases, Goes, TypeInv, TypeOK
  <2>2. Held' = Held
    BY <2>1 DEF Held
  <2>3. ClientView' = ClientView
    BY <1>10 DEF WorkerBlocks, WorkerExits, WorkerNotifies, WorkerReleases, ClientView
  <2> QED BY <2>1, <2>2, <2>3
<1>11. Tasks = Promise!Tasks
  BY DEF Tasks, Promise!Tasks
<1> QED BY <1>1, <1>2, <1>3, <1>4, <1>5, <1>6, <1>7, <1>8, <1>9, <1>10, <1>11
    DEF Next, Calls, InsideCall, Worker, Terminated

(* Each step of the pool is one of TaskPool or none that it can see: the   *)
(* tasks start in order, each runs once, no more than there are workers at *)
(* a time, and wait() and the destructor return when nothing is left.      *)
THEOREM PoolKeepsPromise == Spec => Promise!Spec
<1>1. Init => Promise!Init
  <2> SUFFICES ASSUME Init PROVE Promise!Init
    OBVIOUS
  <2>1. Held = {}
    BY DEF Init, Held
  <2> QED BY <2>1 DEF Init, Promise!Init, ClientView
<1>2. TypeInv /\ EachTaskOnce /\ StopIsFinal /\ [Next]_vars => [Promise!Next]_(Promise!vars)
  BY PromiseStep
<1>3. TypeInv /\ EachTaskOnce /\ [Next]_vars => EachTaskOnce'
  BY OnceStep
<1>4. TypeInv /\ StopIsFinal /\ [Next]_vars => StopIsFinal'
  BY StopStep
<1>5. Init => EachTaskOnce /\ StopIsFinal
  BY OnceInit
<1> QED BY <1>1, <1>2, <1>3, <1>4, <1>5, TypeInit, TypeStep, PTL DEF Spec, Promise!Spec
=============================================================================
