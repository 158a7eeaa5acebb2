---------------------------- MODULE ThreadPool ----------------------------
(***************************************************************************)
(* Class ThreadPool (ThreadPool/ThreadPool.cpp) with its one client, the   *)
(* thread that runs ScanPipeline::scan.                                    *)
(*                                                                         *)
(* A critical section of mutex_ is one step.  Evaluating the predicate of  *)
(* a condition variable and blocking on it is one step, because the wait   *)
(* releases the mutex atomically; a wakeup makes the thread evaluate the   *)
(* predicate again.  A notify outside the mutex is a step of its own.      *)
(***************************************************************************)
EXTENDS Integers, Sequences, FiniteSets

CONSTANTS
  Workers,         \* workers_
  QueueCapacity,   \* queue_capacity_
  NTasks           \* bound: the tasks the client hands over in all

ASSUME PoolAssumption ==
  /\ IsFiniteSet(Workers)
  /\ Workers # {}
  /\ QueueCapacity \in Nat \ {0}
  /\ NTasks \in Nat

VARIABLES
  tasks,           \* tasks_
  active_tasks,    \* active_tasks_
  stop,            \* stop_
  worker,          \* what each worker is about to do
  task,            \* the task each worker holds
  client,          \* what the client is about to do
  sent,            \* how many tasks were queued; task n is the nth of them
  finished         \* the tasks that have run

vars == <<tasks, active_tasks, stop, worker, task, client, sent, finished>>

Tasks == 1 .. NTasks
NoTask == 0

(* "blocked" is the wait set of task_available_cv_; "enqueue_blocked" is   *)
(* that of queue_space_cv_ and "wait_blocked" that of all_tasks_done_cv_.  *)
WorkerStates == {"check", "blocked", "took", "running", "ran", "exited"}
ClientStates ==
  {"idle", "enqueue", "enqueue_blocked", "notify", "wait", "wait_blocked",
   "stopping", "joining", "destroyed"}

TypeOK ==
  /\ tasks \in Seq(Tasks) /\ Len(tasks) <= QueueCapacity
  /\ active_tasks \in Nat
  /\ stop \in BOOLEAN
  /\ worker \in [Workers -> WorkerStates]
  /\ task \in [Workers -> Tasks \cup {NoTask}]
  /\ client \in ClientStates
  /\ sent \in 0 .. NTasks
  /\ finished \subseteq Tasks

Init ==
  /\ tasks = <<>>
  /\ active_tasks = 0
  /\ stop = FALSE
  /\ worker = [w \in Workers |-> "check"]
  /\ task = [w \in Workers |-> NoTask]
  /\ client = "idle"
  /\ sent = 0
  /\ finished = {}

Goes(w, from, to) ==
  /\ worker[w] = from
  /\ worker' = [worker EXCEPT ![w] = to]

ClientGoes(from, to) == client = from /\ client' = to

Blocked == {w \in Workers : worker[w] = "blocked"}
-----------------------------------------------------------------------------
(* enqueue(): the queue is full, or takes the task.  stop_ is set by the   *)
(* same thread later, so enqueue never finds it.                           *)
CallEnqueue ==
  /\ sent < NTasks
  /\ ClientGoes("idle", "enqueue")
  /\ UNCHANGED <<tasks, active_tasks, stop, worker, task, sent, finished>>

EnqueueBlocks ==
  /\ Len(tasks) >= QueueCapacity
  /\ ClientGoes("enqueue", "enqueue_blocked")
  /\ UNCHANGED <<tasks, active_tasks, stop, worker, task, sent, finished>>

(* Mutant: the size is compared with <=.                                   *)
EnqueuePushesOneMore ==
  /\ Len(tasks) <= QueueCapacity
  /\ ClientGoes("enqueue", "notify")
  /\ tasks' = Append(tasks, sent + 1)
  /\ sent' = sent + 1
  /\ UNCHANGED <<active_tasks, stop, worker, task, finished>>

EnqueuePushes ==
  /\ Len(tasks) < QueueCapacity
  /\ ClientGoes("enqueue", "notify")
  /\ tasks' = Append(tasks, sent + 1)
  /\ sent' = sent + 1
  /\ UNCHANGED <<active_tasks, stop, worker, task, finished>>

(* Mutant: a worker is woken only when the queue had been empty.           *)
EnqueueNotifiesIfFirst ==
  /\ ClientGoes("notify", "idle")
  /\ \/ /\ Blocked = {} \/ Len(tasks) > 1
        /\ UNCHANGED worker
     \/ /\ Len(tasks) <= 1
        /\ \E w \in Blocked : Goes(w, "blocked", "check")
  /\ UNCHANGED <<tasks, active_tasks, stop, task, sent, finished>>

(* task_available_cv_.notify_one(), after the mutex was released.          *)
EnqueueNotifies ==
  /\ ClientGoes("notify", "idle")
  /\ \/ /\ Blocked = {}
        /\ UNCHANGED worker
     \/ \E w \in Blocked : Goes(w, "blocked", "check")
  /\ UNCHANGED <<tasks, active_tasks, stop, task, sent, finished>>

(* Mutant: running tasks are not waited for.                               *)
QueueIsEmpty == tasks = <<>>

(* wait()                                                                  *)
AllDone == tasks = <<>> /\ active_tasks = 0

CallWait ==
  /\ ClientGoes("idle", "wait")
  /\ UNCHANGED <<tasks, active_tasks, stop, worker, task, sent, finished>>

WaitBlocks ==
  /\ ~AllDone
  /\ ClientGoes("wait", "wait_blocked")
  /\ UNCHANGED <<tasks, active_tasks, stop, worker, task, sent, finished>>

WaitReturns ==
  /\ AllDone
  /\ ClientGoes("wait", "idle")
  /\ UNCHANGED <<tasks, active_tasks, stop, worker, task, sent, finished>>

(* ~ThreadPool(), after wait() or while an exception unwinds scan().       *)
Destroy ==
  /\ ClientGoes("idle", "stopping")
  /\ stop' = TRUE
  /\ UNCHANGED <<tasks, active_tasks, worker, task, sent, finished>>

(* Mutant: notify_one instead of notify_all.                               *)
StopNotifiesOne ==
  /\ ClientGoes("stopping", "joining")
  /\ IF Blocked = {} THEN UNCHANGED worker
     ELSE \E w \in Blocked : worker' = [worker EXCEPT ![w] = "check"]
  /\ UNCHANGED <<tasks, active_tasks, stop, task, sent, finished>>

StopNotifies ==
  /\ ClientGoes("stopping", "joining")
  /\ worker' = [w \in Workers |->
                  IF w \in Blocked THEN "check" ELSE worker[w]]
  /\ UNCHANGED <<tasks, active_tasks, stop, task, sent, finished>>

Join ==
  /\ \A w \in Workers : worker[w] = "exited"
  /\ ClientGoes("joining", "destroyed")
  /\ UNCHANGED <<tasks, active_tasks, stop, worker, task, sent, finished>>
-----------------------------------------------------------------------------
(* workerLoop()                                                            *)
WorkerBlocks(w) ==
  /\ tasks = <<>> /\ ~stop
  /\ Goes(w, "check", "blocked")
  /\ UNCHANGED <<tasks, active_tasks, stop, task, client, sent, finished>>

WorkerExits(w) ==
  /\ tasks = <<>> /\ stop
  /\ Goes(w, "check", "exited")
  /\ UNCHANGED <<tasks, active_tasks, stop, task, client, sent, finished>>

(* Mutants: the task stays in the queue; the worker is counted later.      *)
WorkerTakesACopy(w) ==
  /\ tasks # <<>>
  /\ Goes(w, "check", "took")
  /\ task' = [task EXCEPT ![w] = Head(tasks)]
  /\ active_tasks' = active_tasks + 1
  /\ UNCHANGED <<tasks, stop, client, sent, finished>>

WorkerTakesUncounted(w) ==
  /\ tasks # <<>>
  /\ Goes(w, "check", "took")
  /\ task' = [task EXCEPT ![w] = Head(tasks)]
  /\ tasks' = Tail(tasks)
  /\ UNCHANGED <<active_tasks, stop, client, sent, finished>>

WorkerTakes(w) ==
  /\ tasks # <<>>
  /\ Goes(w, "check", "took")
  /\ task' = [task EXCEPT ![w] = Head(tasks)]
  /\ tasks' = Tail(tasks)
  /\ active_tasks' = active_tasks + 1
  /\ UNCHANGED <<stop, client, sent, finished>>

(* queue_space_cv_.notify_one(): the client is the only possible waiter.   *)
WorkerNotifies(w) ==
  /\ Goes(w, "took", "running")
  /\ client' = IF client = "enqueue_blocked" THEN "enqueue" ELSE client
  /\ UNCHANGED <<tasks, active_tasks, stop, task, sent, finished>>

(* task(), with or without an exception.                                   *)
WorkerRuns(w) ==
  /\ Goes(w, "running", "ran")
  /\ finished' = finished \cup {task[w]}
  /\ UNCHANGED <<tasks, active_tasks, stop, task, client, sent>>

(* Mutant: the condition of the notify is looked at before the decrement.  *)
WorkerReleasesLate(w) ==
  /\ Goes(w, "ran", "check")
  /\ task' = [task EXCEPT ![w] = NoTask]
  /\ active_tasks' = active_tasks - 1
  /\ client' = IF client = "wait_blocked" /\ tasks = <<>> /\ active_tasks = 0
               THEN "wait" ELSE client
  /\ UNCHANGED <<tasks, stop, sent, finished>>

(* The last critical section, which holds the mutex while it notifies.     *)
WorkerReleases(w) ==
  /\ Goes(w, "ran", "check")
  /\ task' = [task EXCEPT ![w] = NoTask]
  /\ active_tasks' = active_tasks - 1
  /\ client' = IF client = "wait_blocked" /\ tasks = <<>> /\ active_tasks' = 0
               THEN "wait" ELSE client
  /\ UNCHANGED <<tasks, stop, sent, finished>>

(* A wakeup nobody asked for.                                              *)
SpuriousWakeup ==
  /\ \/ /\ \E w \in Workers : Goes(w, "blocked", "check")
        /\ UNCHANGED client
     \/ /\ \/ ClientGoes("enqueue_blocked", "enqueue")
           \/ ClientGoes("wait_blocked", "wait")
        /\ UNCHANGED worker
  /\ UNCHANGED <<tasks, active_tasks, stop, task, sent, finished>>

Worker(w) ==
  \/ WorkerBlocks(w) \/ WorkerExits(w) \/ WorkerTakes(w)
  \/ WorkerNotifies(w) \/ WorkerRuns(w) \/ WorkerReleases(w)

(* What the client does once it is inside a member function.               *)
InsideCall ==
  \/ EnqueueBlocks \/ EnqueuePushes \/ EnqueueNotifies
  \/ WaitBlocks \/ WaitReturns
  \/ StopNotifies \/ Join

Calls == CallEnqueue \/ CallWait \/ Destroy

Terminated == client = "destroyed" /\ UNCHANGED vars

Next ==
  \/ Calls \/ InsideCall
  \/ \E w \in Workers : Worker(w)
  \/ SpuriousWakeup
  \/ Terminated

Spec == Init /\ [][Next]_vars

(* The operating system runs every thread that is not blocked, every task  *)
(* returns or throws, and wakeups without a notify cannot be relied on.    *)
FairSpec ==
  /\ Spec
  /\ WF_vars(InsideCall)
  /\ \A w \in Workers : WF_vars(Worker(w))
-----------------------------------------------------------------------------
Busy == {w \in Workers : worker[w] \in {"took", "running", "ran"}}
Checking == {w \in Workers : worker[w] = "check"}
Held == {task[w] : w \in {v \in Workers : worker[v] \in {"took", "running"}}}

(* active_tasks_ counts the workers between the two critical sections, so  *)
(* that wait() can rely on it; a decrement that goes missing would block   *)
(* wait() for ever, an extra one would wrap the unsigned counter.          *)
ActiveIsBusy == active_tasks = Cardinality(Busy)

(* Every task handed over is queued, held by one worker, or has run: none  *)
(* is lost, none runs twice, and the queue holds the newest in order.      *)
EachTaskOnce ==
  /\ \A i \in DOMAIN tasks : tasks[i] = sent - Len(tasks) + i
  /\ 1 .. sent - Len(tasks) = Held \cup finished
  /\ Held \cap finished = {}
  /\ \A v, w \in Workers :
       worker[v] \in {"took", "running"} /\ worker[w] \in {"took", "running"}
       /\ task[v] = task[w] => v = w

(* No wakeup is lost although notify_one runs outside the mutex: while a   *)
(* worker sleeps, every queued task has a worker on its way to it, or the  *)
(* client is about to wake one.                                            *)
NotifyPending == IF client = "notify" THEN 1 ELSE 0

NoTaskStranded ==
  Blocked # {} => Len(tasks) <= Cardinality(Checking) + NotifyPending

(* The client sleeps in enqueue() only while the queue is full or a worker *)
(* that made room is about to notify it, and in wait() only while a task   *)
(* is queued or running: both sleeps have somebody to end them.            *)
ClientNotStranded ==
  /\ client = "enqueue_blocked" =>
       Len(tasks) >= QueueCapacity \/ \E w \in Workers : worker[w] = "took"
  /\ client = "wait_blocked" => ~AllDone

(* wait() returns only when all that was handed over has run: after it     *)
(* ScanPipeline commits the cache and lets go of what the tasks refer to.  *)
WaitIsBarrier == [][WaitReturns => finished = 1 .. sent]_vars

(* What the comment on ~ThreadPool in ThreadPool.h says of the tasks that  *)
(* are still queued when stop_ is set: they are discarded, so that from    *)
(* then on a worker ends the task it holds and takes no other.  Not so:    *)
(* workerLoop leaves only when the queue is empty.                         *)
LeftoverDiscarded == [][stop => Held' \subseteq Held]_vars

(* Whatever the interleaving, each call of the client returns, that of the *)
(* destructor included, which has to wake every worker.                    *)
CallsReturn == client \notin {"idle", "destroyed"} ~> client \in {"idle", "destroyed"}

(* The pool implements TaskPool: bounded queue, order, barriers, and a     *)
(* destructor that returns when nothing is queued or running.              *)
ClientView ==
  CASE client \in {"idle", "enqueue", "enqueue_blocked", "notify"} -> "working"
    [] client \in {"wait", "wait_blocked"} -> "waiting"
    [] client \in {"stopping", "joining"} -> "destroying"
    [] OTHER -> "destroyed"

Promise == INSTANCE TaskPool WITH
  NWorkers <- Cardinality(Workers), Capacity <- QueueCapacity,
  pending <- tasks, running <- Held, finished <- finished, client <- ClientView

ImplementsTaskPool == Promise!FairSpec
=============================================================================
