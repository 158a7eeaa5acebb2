# Verification of the virus detector

TLA+ models of the scanner (`av`), TLC runs that check them on small instances,
and TLAPS proofs of theorems about them. Paths below are relative to the
repository (`src/...` is its source directory).

    tlasany M.tla                                 # parse
    tlc -workers 2 -config MCResumeScan_crash.cfg MCResumeScan
    tlapm ResumeScanProofs.tla                    # check the proofs of a module

`PROJECT.json` lists the runs, the mutants, the theorems, the hazards with the
lines where they bite, and for every definition the lines it models.

## 1. The system

One process runs one command: a scan of a root directory, or one quarantine
command (list, restore, restore-all, delete). A service starts a scan at boot,
so a scan and a command may overlap. A scan has three kinds of threads: the
main thread walks the tree, the workers of a pool read and match files, and a
writer thread stores verdicts in SQLite.

    walker (main thread) --stat--> resume manager: addFile
           |                         |
           |-- cache hit ----------> update the stamp, fileCompleted
           `-- cache miss --> pool.enqueue --> worker: FileProcessor::process
                                       |--> CacheManager::update --> writer --> SQLite
                                       |--> QuarantineManager::quarantine
                                       `--> ResumeManager::fileCompleted
    end of the walk: discoveryFinished, pool.wait, commitGeneration

| Component | State | Operations | What is hard | What makes it correct |
|---|---|---|---|---|
| Resume manager `Resume/ResumeManager` | unfinished files (a set of path strings), `next_file_`, counter, the checkpoint file | `begin`, `addFile`, `fileCompleted`, `discoveryFinished`, `save` | workers complete files in any order; kill at any point; two orders on paths; failing saves | the checkpoint skips only files dealt with; "completed" only when all are, and whenever all are |
| Thread pool `ThreadPool/ThreadPool` | bounded queue, `active_tasks_`, `stop_`, three condition variables | `enqueue`, `wait`, destructor, `workerLoop` | `notify` outside the mutex, spurious wakeups, full queue, shutdown with a non-empty queue | no lost or repeated task, no lost wakeup, `wait` and the destructor are barriers |
| Verdict cache `Cache/*` | entries in memory, upsert queue, table, `generation.txt` | `load`, `cachedVerdict`, `update`, `commitGeneration`, the writer's batches | a prune by generation while stamps are still queued; a lost batch; a failed open; files that change while they are scanned | a verdict is reused only for the content it came from; a prune drops only what no file needs |
| Scan pipeline `Scan/Pipeline/*` | the three above plus the counters of `ScanSummary` | `scan` and its handlers | the order of the commit: walk, wait, join the writer, prune, save the generation; a scan that resumes an interrupted one; a malicious file that stays where it is | as above, over both; malware that the scan met and could read is reported; the counters add up |
| Quarantine `Quarantine/*` | files in quarantine, `metadata.json`, the records in memory | `quarantine`, `restore`, `restoreAll`, `remove`, `load`, `save` | move and save are two effects; roll-back; two processes with a copy of the records each; exceptions of the JSON encoder; ids that are checked against files only | no file vanishes; a file without a record takes more than a failed save or move |
| Application and command line `Application/*`, `CLI/*` | none | `parse`, `run`, `dispatch` | a command of several steps of which one fails, and the exit code | exit code 0 means that the command did what it was asked |
| Tree walker `Scan/Traversal/*`, `Resume/ResumePathFilter` | the recursion | `walk`, `walkDirectory`, `readSortedChildren`, `decide` | resume filter along a path; a tree that changes between the check, the reading and the visits; links; a reading that breaks off | files in walking order; a resumed walk is the rest of a fresh one; no link is followed |
| Exclusions `Exclude/*` | a set of canonical paths | `loadDefaults`, `loadFromFile`, `shouldSkip`, `isRootInsideExcludedPath` | rules resolved once, over links, on a tree that changes later; exact comparison, so everything depends on who is asked where | nothing at or below an excluded path is visited |
| Automaton `Scan/Automaton/*` | trie, failure links, outputs | `build`, `step`, `scanChunk` | inheritance of outputs and transitions along the breadth-first order | it recognises exactly the signatures |
| File processor `Scan/FileProcessor` | state across chunks, matched indexes | `process` | chunk boundaries, read errors | matches are exactly what occurs in what was read; what could not be read is not clean |
| Signature loader `Signature/SignatureLoader` | signatures, their timestamp | `load` | timestamp taken after the content | no verdict of old signatures is trusted under new ones |
| Logger, console, performance monitor, crash handler, packaging | | | | see section 7 |

## 2. Modules

| Module | Models | State and actions |
|---|---|---|
| `PathOrder` | the two orders on paths | `WalkedBefore`: name by name, as `readSortedChildren` sorts; `StringBefore`: whole strings, as the resume manager's set does. Pure operators |
| `ResumeManager` | `ResumeManager` | its members under their own names, and `checkpoint`, the file. One operator per public method, `SaveAs` for the rename of a temporary file, with a save that fails and a write that fails unnoticed |
| `ResumeScan` | a scan as the resume manager sees it: walker, tasks, crashes, restarts | `proc` (down, walking, draining), `walk_pos`, `hit` (between `addFile` and `fileCompleted` on a cache hit), `inflight`; `accounted[root]` is a history variable: the files dealt with since the scan of the root began. Files are numbered in walking order, `Key[f]` is the rank of the path in the string order |
| `ThreadPool` | `ThreadPool` with one client thread and its workers | the members, and a program counter per thread. One action per critical section, and one per `notify` made after the unlock; `SpuriousWakeup` |
| `TaskPool` | what the pool does for its client | bounded queue, at most one task per worker, `wait` and the destructor as barriers. Abstract: no mutex, no wait sets. It is read off `ThreadPool.cpp`; of the destructor the header says something else (run `pool_destructor`) |
| `CacheManager` | `CacheManager`, `CacheWriter`, `SqliteCacheManager` | `cache_entries`, `upsert_queue`, `batch`, `rows` (the table), `gen_file`, `current_generation`; generations are compared as the signed column does (`Signed`) |
| `ScanPipeline` | `ScanPipeline::scan` over `ResumeScan` (extended) and `CacheManager` (extended), `SignatureLoader`, `ScanSummary` | each action of `ResumeScan` together with what the handler does to the cache, the quarantine (`away`) and the counters (`summary`, each as the set of files it counts). `version[f]` is what a file contains and `signatures` what the signature file does; `loaded`, `info` and `judged` are what the loader, the walker's `stat` and a worker's read have seen of them; a reading that an error ended is `cut`, and no signature is found in it; `commit` is the place in `commitGeneration` |
| `QuarantineManager` | `QuarantineManager`, its repository and its file operations, in several processes | the disk (`original`, `files`, `metadata`) and per process `entries`, a program counter and the command it runs (`command`, `asked`, `todo`, `all_ok`); each effect on the disk is one step, and so is the end of a process. A file in quarantine is at its `Destination`, id and extension; a drawn id is free when nothing is there (`NewId`), so ids may repeat. `born`, `deleted`, `overwritten`, `disturbed` and `hindered` are history variables |
| `Application` | `CommandParser`, `Application`, over `QuarantineManager` (extended) | `Parse` from arguments to commands, `Run` for the dispatch, with a `metadata.json` that cannot be loaded or not even examined; the exit code is the way a process ends (`succeeded`, `down`) |
| `FileTreeWalker` | walker, resume filter, `ExcludeSet` and the exclude checks | the recursion as a stack of frames; a directory is checked when its frame is pushed and read in a later step (`ReadSortedChildren`), which follows a link that is there by then and may break off; a frame has the children that were read and not yet handled, a set of which the first in name order is next; `kind`, what is at each path, changes under it, from the loading of the exclude rules on, into anything, links included |
| `Automaton` | `AutomatonBuilder` | the trie and the breadth-first pass, byte by byte as the two loops go (`index`, `taken`, `at`, `byte` are their variables); `word` is a history variable: the string each state stands for |
| `FileProcessor` | `FileProcessor::process`, `AutomatonScanner` over `Automaton` | chunks, a read that fails anywhere, one step per byte scanned |
| `ResumeScanProofs`, `ThreadPoolProofs`, `ScanPipelineProofs`, `PruneProofs` and `ReportProofs` (both over `ScanPipelineProofs`), `QuarantineProofs`, `FileTreeWalkerProofs`, `AutomatonProofs` | | theorems and proofs |
| `MC*` | | the instances for TLC |

Conventions. `None`, `NoFile`, `NoEntry` stand for a value that is not there.
The comment "Mutant" marks a definition that no specification uses: a plausible
bug, named in `PROJECT.json` beside the property that has to notice it.

How they compose: `ScanPipeline` runs the actions of `ResumeScan` and
`CacheManager` together, and is proved to implement `ResumeScan`. To the
pipeline the pool is what `TaskPool` says (tasks run once, in any order,
and `wait` is a barrier), which `ThreadPool` implements; quarantine is a move
that succeeds, fails or throws, which `QuarantineManager` takes apart. A worker's
verdict is a fact about its reading: read to the end, a content is malicious when
a signature occurs in it (`Matches`), which is what `FileProcessor` shows; a reading
that an error ends is clean unless the signature came before the error, as
`FileProcessor` has it (run `match_read_fails`), and it is counted and cached as
clean. The walk is a sequence of files, which `FileTreeWalker`
shows to be in walking order and, when resumed, the rest of a fresh one.

## 3. Runs

Bounds are given with each run. All of them explore the full state space of
their instance.

**`resume_crash`** (`MCResumeScan_crash.cfg`, 134 thousand states). Four files, two
overlapping roots, a checkpoint every second completion, kills at any step and
any number of restarts, saves that fail, writes that fail unnoticed, tasks that
throw. `CheckpointSafe`: whatever happened, a walk that resumes at the
checkpoint skips only files that were dealt with. `SafetyInv`: the invariant
that the proof of it needs. `CompletedOnlyWhenDone`: no early "completed".
`ResumePointAdvances`: within a process the point never moves back. Four files
are enough to have one completed out of order before, between and after two
unfinished ones, and an interval of two to have completions with and without a
save. The string order of the paths is computed by `PathOrder` from real paths
(and the instance asserts their walking order), so an instance cannot claim an
order the two comparisons do not have.

**`resume_order`** (three files, violation). The two orders differ as soon as a
name has a character below `/` after the stem of a directory, such as `a/x`
and `a.t`: the smallest unfinished *string* is then not the earliest
unfinished *file*, and `CheckpointSafe` fails. This is finding 1; the theorems
below name the condition (`OrdersAgree`) under which it does not happen.

**`pool`** (43 thousand states). Three workers, a queue of two, five tasks, and
spurious wakeups: more tasks than queue and workers take in at once, so all
three wait sets are used, together with `wait` between the enqueues and a
destructor at any time. Safety: `ActiveIsBusy` (the counter is the number of
workers with a task), `EachTaskOnce`, `NoTaskStranded` and `ClientNotStranded` (no
thread sleeps while what it waits for is there and nobody is about to wake it),
`WaitIsBarrier`. Deadlock is checked. Liveness: `CallsReturn`. Refinement:
`ImplementsTaskPool`, the pool implements the abstract `TaskPool` with its
fairness; that the destructor is a barrier, too, is part of `TaskPool`.

**`pool_destructor`** (violation of `LeftoverDiscarded`). The header says that the
destructor discards the tasks that are still queued; the workers take them and
run them before it returns.

**`pipeline_reliable`** (432 thousand states). Two files, roots `/` (a full scan,
which prunes) and `sub`, batches of two, generations 0 to 5, kills and restarts,
quarantine that may fail, no other failing I/O. `StampsAreDurable`,
`PruneOnlyAfterFullScan`, `PruneKeepsSeen`, `PruneLeavesCurrent` and
`GenerationAdvances` say what the order of the steps of `commitGeneration` is
for. `SummaryAddsUp`: each file met is counted once, as scanned, cached or
failed. `DrainedMeansCompleted`: a scan whose tasks have ended has a completed
checkpoint, whether the last completion or `discoveryFinished` came last.
`EveryScanEnds` includes the join of the writer. Two files with batches of two
leave a partial batch in the queue; of the generations, three are in the second
half of the range, which the signed column takes for negative, and after the
last one counting restarts on a wiped table. `PruneLeavesCurrent` speaks of the
first half only: beyond it a prune leaves rows it should drop.

**`pipeline_faults`** (4.6 million states). One file whose content changes at any
time (two versions), a signature file with three versions of which one is
empty, edited at any time but while it is loaded (section 6), and these faults: files that
cannot be opened, reads that an error ends, failing checkpoint saves, failing batches,
opens and generation saves, quarantine that fails or throws before or after the
move. Malicious files are restored at any time. `VerdictsAreCurrent`: an entry
that the metadata of the file and the time of the signatures match was computed
from that content with those signatures. `SilentOnlyAfterReadError`: what the
scan met, and matches, is counted as malicious or failed, cached or not, unless
an error ended the very reading that its verdict comes from. That the exception
is needed is what `match_read_fails` shows; that there is no other one, through
cache, restarts and failing quarantine, is what this run adds. Entries are per
file, so one file with two versions has the race between the walker's `stat`, the
worker's read and the record; a content matches from the first or from the third
signatures on.

**`pipeline_interrupted`** (violation). Stamps wait in the writer's queue while
the checkpoint moves on. After a kill the resumed full scan skips their files
and prunes their rows: `InterruptionKeepsCache` fails.

**`quarantine_faults`** (1.4 million states, up to the exchange of the two
processes, which the model does not tell apart). Two processes started with any
arguments, again and again, three malicious files of which two share a path and
one is not encodable, one id; kills, failing examinations, loads and moves,
failing and torn saves, and files that appear at any time. `NothingVanishes`: a
file is at its path or in quarantine. `LostOnlyIfDisturbed`: as long as only saves
and moves have failed, a file is at its path or behind a record, by the
roll-back; the other ways to lose its record are what sets `disturbed`. Two files
at one path are what lets a path be taken while its first file is in quarantine;
a third one at a path with another extension is what lets the one id be drawn
again while a record has it. `ExitCodeIsContract`: a command that ends with 0 has
left no file in quarantine, and no id in the records on disk, of the records that
it was asked about. It is silent on a command that is `hindered`: beside which
another process ran, whose saves undo its own, or for which `exists` could not say
whether there is a `metadata.json`, which `load` takes for an empty quarantine
(section 6). One id suffices for it: with two records under it, which `find` and
`removeById` cannot tell apart, `restore-all` has two things to do of which the
first may fail and the second succeed, or the first take both ids away.

**`quarantine_throws`** (violation of `NotLost`). The JSON encoder throws on a
path that is not UTF-8, after the move and past the roll-back.

**`walk`** (2.1 million states). Nine trees (directories that cannot be read or
are something else, links, other kinds of files, a root of each kind, a link to a
file included), four exclude files (blank, commented, relative rules, one with
`..`, one above the root, one for the file system's root) beside a default rule, four
resume points (a directory or a file that is gone, a file that exists, a
directory that is a file by now, with a name after that of a file in a later
directory), and two disturbances after the rules were
loaded: anything may appear, go, or become something else, a link to another
directory or to one above included, and the reading of a directory may break
off after any of its entries. `VisitsInOrder`, `NothingExcluded`,
`WalksFromResumePoint`, `LinksNotFollowed`: no link on the path of a file that was
handed over, unless somebody touched that path during the walk, whatever became
a link elsewhere. Two disturbances are what it takes for a directory to become a
link and for another to go or to break off, and for a child to appear below a
directory that has just changed.

**`match`** (202 thousand states). All pairs of signatures of up to three bytes over
two letters, and triples with a longer one that overlaps them, on all contents
of length one and five, chunks of two bytes, read errors anywhere.
`TransitionsComplete` and `OutputsComplete`: the built automaton against the
longest suffix that is a prefix of a signature. `MatchesAreExact`: what is
matched against what occurs.

**`match_read_fails`** (violation of `UnreadableIsNotClean`). A read that fails
after a successful open looks like the end of the file: verdict clean.

`CHECK_DEADLOCK FALSE` is set only where the system stops: a finished walk and a
finished match.

## 4. Fairness

* Pool: each worker and the client (inside a call) keep running, as threads
  that are neither blocked nor killed do. Weak fairness, and strong fairness
  nowhere: a thread is woken by a `notify` that the code makes, so nothing
  depends on luck at the mutex. Spurious wakeups, new calls and the destructor
  are not fair: nothing forces them.
* Pipeline: weak fairness of the walking thread, of each task and of the writer
  thread. Starting a scan, kills, and changes of files and of signatures are not
  fair. A task ends in any case: a quarantine that fails returns.
* The other modules have safety properties only.

## 5. Proofs

Every theorem is proved for every value of the constants that satisfies the
assumptions named in the modules. Of the properties that the passing runs check,
every invariant and every action property is a theorem; what is left to TLC is
liveness (end of this section). Where a theorem has a hypothesis on the
constants, it says that the two path orders agree, or switches off faults of the
environment, and the reason is given: without any one of them, TLC finds the
property false on a small instance.

`ResumeScanProofs`: for any number of files and roots, any interval, with
failing saves and tasks that throw.
  * `TypeCorrect`: the type invariant.
  * `SafetyInvariant`, `ResumeIsSafe`: `OrdersAgree => (Spec => []CheckpointSafe)`,
    with the invariant it takes.
  * `CompletedIsComplete`: under the same condition, `CompletedOnlyWhenDone`.
  * `ResumePointNeverMovesBack`: under the same condition, `ResumePointAdvances`.
  * `DrainedIsCompleted`: where saves succeed and no task throws,
    `DrainedMeansCompleted`. A task that throws is never completed (section 6).

`CheckpointSafe` speaks of the file alone, and is not inductive: that the next
save is safe depends on what memory holds. The invariant `SafetyInv` adds that
every file the walker has passed is dealt with or still in the set
(`SeenIsKept`), that the set has only files passed (`UnfinishedIsSeen`), that
`next_file_` is its smallest element unless it is empty (`NextIsSmallest`), and
that `discovery_finished_` is set exactly while draining, when everything has
been passed (`DiscoveryIsOver`). The assumption `OrdersAgree` turns "smallest
string" into "earliest file"; run `resume_order` shows that it is needed.

`ThreadPoolProofs`: for any finite set of workers, any capacity above zero and
any number of tasks.
  * `TypeCorrect`, the bound on the queue included.
  * `ActiveCounts`: `ActiveIsBusy`, by cardinality lemmas of the library.
  * `NoLostWakeup`: `NoTaskStranded`. While a task waits in the queue, a worker
    is awake or the client is about to notify.
  * `ClientIsWoken`: `ClientNotStranded`. A client asleep in `enqueue` has a full
    queue before it or a worker about to notify it; asleep in `wait`, something is
    left to do.
  * `TasksRunOnce`: `EachTaskOnce`. The tasks sent are split among those that
    ran, those held, and the queue, in order.
  * `WaitReturnsAfterAll`: `WaitIsBarrier`, from the previous ones.
  * `PoolKeepsPromise`: `Spec => Promise!Spec`, the safety part of
    `ImplementsTaskPool`: every step of the pool with its mutex, wait sets and
    late notifies is a step of `TaskPool` or leaves what it promises alone.

`ScanPipelineProofs`: for any number of files and roots, any bounds on versions,
signatures, generations and batches, any set of matching contents, and every
fault on or off.
  * `PipelineImplementsResumeScan`: `PipelineSpec => Spec`. Each step of the
    pipeline is a step of `ResumeScan`, whose variables it has, or leaves them
    alone. So whatever is proved of `ResumeScan` holds of the pipeline:
  * `PipelineResumesSafely`: `OrdersAgree => (PipelineSpec => []CheckpointSafe)`.
  * `PipelineTypeCorrect`: the type invariant, bounds on generations and
    `recorded \subseteq inflight` included. It needs `TasksAreMet`: a task belongs
    to a file that the walk is past and that was met with its metadata, and a
    verdict to a task (so a file that is met anew has read nothing yet).
  * `VerdictsAreTrusted`: `~EditsMidLoad => (PipelineSpec => []VerdictsAreCurrent)`.

`VerdictsAreCurrent` compares an entry with the file as it is now. It does not say
what the tasks under way are about to record, nor exclude an entry filed under a
version that is yet to come: it is not inductive. `VerdictInv` says what is true of every entry, in
memory, in the queue, in the batch and in the table: its content is at least as
new as the metadata it is filed under, and its signatures are those of the time
it is filed under (`EntriesAreHonest`); the same of each task (`TasksAreHonest`);
and what was loaded as signatures goes with the time asked for afterwards
(`LoadIsWhole`). An honest entry that matches the file now has its content
between two equal versions. Versions only grow, which is the assumption that
every change of a file changes its metadata. Without `~EditsMidLoad` the step
`StartScan` breaks `LoadIsWhole`: with `EditsMidLoad = TRUE` in the configuration of
`pipeline_faults`, TLC finds `VerdictsAreCurrent` violated (section 6).

`PruneProofs`, over the previous module.
  * `PruningKeepsWhatWasSeen`, where batches of the database succeed (one that
    fails is dropped with its stamps).
  * `EveryStampIsDurable`, where it opens as well (one that cannot be opened takes
    nothing, and leaves generation 0).
  * `GenerationsMoveForward`, `PruningLeavesCurrentRows`, where saves succeed
    too (one that fails leaves the saved generation behind the rows).
  * `PruningFollowsFullScan` where the path orders agree and no task throws.

The invariants follow the code's order of join, prune and save. `WriterInv`
ties the writer to the place in `commitGeneration`: from the join on its queue and
batch are empty, and until then what waits in them has the current
generation. `StampsInv`: once the database is open, the row of each file that this
process has stamped has the current generation already, or an entry for it waits. `GenerationInv`: the current
generation is the one after the saved one, and no row is newer. The last theorem
takes the invariants of `ResumeScanProofs`, through the refinement.

`ReportProofs`, over the same.
  * `CountersAddUp`: `SummaryAddsUp`, no hypothesis. `CountsInv`: each file met is
    in exactly one of scanned, cached, failed, and the tasks that have not judged yet.
  * `MalwareIsReported`: `SilentOnlyAfterReadError`, under `~EditsMidLoad`. A hit is
    only as good as the entry it takes, so `ReportInv` (each file met is counted as
    malicious or failed, not judged yet, clean in the version that its `stat` saw,
    if it still has that, or excused by a reading of that very version that an
    error ended) stands on `VerdictInv`, and on `RecordedInv`: between a task's record
    and its end, the entry of its file is the one it recorded.

`QuarantineProofs`: for any number of files, paths and ids, and all faults, ids
that repeat included, and any number of processes; no theorem has a hypothesis.
  * `QuarantineTypeCorrect`.
  * `NothingIsLost`: `NothingVanishes`.
  * `ExitCodeIsKept`: `ExitCodeIsContract`. `ExitInv`: a command at work that nothing
    has hindered is `Alone`, and keeps its `Promise`: as long as nothing has failed,
    each record that it is about is `Accounted` for. It is still to do, or settled
    (its file has left the quarantine, no record in memory has its id), or in hand,
    itself or as the one that `find` takes for it; or the command is `Doomed`: it
    still has to do with a record whose id went with another one, which it will not
    find, so that it will not end with 0. Beside another process there is no such
    promise: that one puts a file back under the id, or its records over those
    saved.
  * `OnlyDisturbanceLoses`: `LostOnlyIfDisturbed`, from `UndisturbedInv`: until
    something else than a save or a move has failed, the processes are `Tidy` (one
    runs at a time, it has loaded every record that still has its file and no
    others, and ids are unique), and each file is at its path, behind a record, or
    in the hands of the step between move and save, which rolls back.

`FileTreeWalkerProofs`: for any tree, root, links, rules and resume point,
and any number of changes and of readings that break off, no hypothesis.
  * `WalkerTypeCorrect`.
  * `WalkIsInOrder`: `VisitsInOrder`, and its corollary `NoneTwice`. `OrderInv`:
    every child that is still to be looked at comes after whatever was visited
    and after the directories open inside its own, and only the innermost
    directory may be unread (`StackInv`).
  * `LinksAreSkipped`: `LinksNotFollowed`, from `LinksInv`: no link between the scan
    root and a directory on the stack that nobody put there during the walk. What
    `ShouldSkip` saw when the directory was checked is kept until it is read, and
    while its children are handed over, for everything that was not touched.
  * `ExcludedIsSkipped`: `NothingExcluded`. `ExcludedInv`: a rule that leads over no
    link and over nothing that was touched is stored as it reads; if the scan
    root is such a path, too, no directory on the stack lies at or below what the
    rule names, so a child lies below only if it is what the rule names, and that is
    what the exact comparison of the filter finds. The lemmas about normal forms are
    inductions over a path: `Resolve` is a recursive function on the lengths of its
    prefixes, and a set of lengths for which a lemma fails has a least element
    (`LeastNumber`).
  * `ResumedWalkIsTheRest`: `WalksFromResumePoint`. Of its first half, `PointInv`:
    a directory for which the filter is on leads to the resume point, and any
    other lies at or after it. Of its second, `ProgressInv`: a file that the walk
    owes (it can be read, nobody touched it or the directories above it, their
    readings did not break off, no rule covers it, it is not before the point) has
    been handed over, or there is a child on the stack, still to be looked at, that is it or leads
    to it, or a directory above it that is still to be read; and what was read of a child's
    type is true unless it was touched.

`AutomatonProofs`: for any alphabet, any list of signatures, any content and
any size of the chunks, reads that fail included, no hypothesis.
  * `ScanTypeCorrect`: no transition of a built automaton leads out of it.
  * `AutomatonIsComplete`: `TransitionsComplete`.
  * `OutputsAreComplete`: `OutputsComplete`.
  * `ScanningIsExact`: `MatchesAreExact`.

The induction over data that these take is the loops' own: the model goes byte by
byte as the code does, and each loop has its invariant. `NodeInv`: the states are
named by distinct words, and with a word all its prefixes. `TrieInv`: what has
been entered of the signatures so far. `LinkInv`, for the breadth-first pass: the states
are met once, shortest words first, and those that are done have the failure
link, the outputs and all the transitions they should have (`BuiltInv` when all are).
`ScanInv`: the state after a byte is that of the longest suffix of what was
read that a signature begins with, so what has been matched is what occurs so far.

All inductive invariants were checked by TLC, on the instances of the runs,
before they were proved. They are in the modules of the proofs; the runs check
the properties.

Only model-checked: liveness, which is out of the prover's reach. These are
`CallsReturn`, `EveryScanEnds`, and of `ImplementsTaskPool` the fairness.

## 6. Findings and known divergences

Five runs show a disagreement of the code with what its documentation, a comment
or a test says (quotations in `PROJECT.json`):

| Run | The code | Who says otherwise |
|---|---|---|
| `resume_order` | takes the smallest unfinished string for the earliest file | `ResumeManager.h:17` |
| `pool_destructor` | runs the tasks that are still queued | `ThreadPool.h:18` |
| `pipeline_interrupted` | prunes valid rows after an interruption | `README.md:340` |
| `quarantine_throws` | leaves a file in quarantine without a record | `QuarantineManager.cpp:77` |
| `match_read_fails` | calls a file clean whose reading failed | `README.md:247` |

Others were met while modelling; the models have them, as the conditions under
which a property is checked, and no run is devoted to them. The first five
contradict what is written beside the code:

* an edit of the signature file between the reading of its lines and that of its
  time (`SignatureLoader.cpp:52`) files old verdicts under the time of the new
  signatures, and later scans trust them; `README.md:478` says that existing entries
  "are no longer trusted for matching against the new signature set"
  (`VerdictsAreCurrent` fails with `EditsMidLoad = TRUE`);
* when `exists` reports an error for `metadata.json` (`QuarantineRepository.cpp:23`),
  `load` says that all is well and that there are no records: `restore-all` restores
  nothing, saves the empty list over the records, and exits with 0;
  `tests/test_05_restore_all.sh:2` says that it "must bring every quarantined file back
  and empty the quarantine" (`hindered` in `ExitCodeIsContract`);
* a drawn id is compared with files only, together with the extension of the new
  file (`QuarantineFileOperations.cpp:33`): two files of different extensions, or a
  file and a record whose file is gone, can have one id;
  `QuarantineFileOperations.h:42` calls it unique (`disturbed` in
  `LostOnlyIfDisturbed`);
* a directory that a link replaces between its check (`FileTreeWalker.cpp:59`) and its
  reading (line 132) is read where the link leads; `README.md:408` says "Symbolic
  links are not followed" (`Untouched` in `LinksNotFollowed`);
* `kDefaultExcluded` (`ExcludeSet.cpp:15-23`) names two project roots, for every scan, and
  no directory of the root in use: below any other root `build/` and `runtime/` are
  scanned; `config/exclude.txt:10` says that they are "always" excluded
  (`Defaults` is a constant of `FileTreeWalker`);
* a task that throws is never completed (`ThreadPool.cpp:94`): the checkpoint
  stays at "running" after a normal end (`DrainedMeansCompleted` with
  `TasksMayThrow = TRUE`);
* a failed batch is ignored (`CacheWriter.cpp:77`), and so `StampsAreDurable` needs
  `DatabaseMayFail = FALSE`;
* a failed open leaves generation 0, which the commit writes over the last one
  (`CacheManager.cpp:23, 91`; `GenerationAdvances` with `OpenMayFail = TRUE`);
* metadata and checkpoint streams are not checked after the write, so a full
  disk renames a truncated file into place (`QuarantineRepository.cpp:59`,
  `ResumeManager.cpp:133`);
* a malicious file that could not be quarantined is cached as malicious, and a
  later hit reports it without another attempt (`ScanPipeline.cpp:182`;
  `SilentOnlyAfterReadError` states the report);
* the verdict of a reading that an error ended is cached, so the file stays
  clean for later scans until it or the signatures change (the exception in
  `SilentOnlyAfterReadError`);
* from generation 2^63 on, the signed column makes a prune compare negative
  numbers (`SqliteCacheManager.cpp:124`; the first half in `PruneLeavesCurrent`);
* an exclude rule `/` excludes no root but `/` (`ScanRootValidator.cpp:12`), and a
  rule over a link excludes what the link led to when the rules were loaded
  (`NothingExcluded` leaves both out);
* an error in the middle of a directory is taken for its end
  (`FileTreeWalker.cpp:139`): the rest of it is not scanned, and nothing says so
  (`WalksFromResumePoint` leaves such directories out);
* a scan root that is a link to a file is handed over (`FileTreeWalker.cpp:36`).

## 7. Abstractions, and what is left out

* Contents and metadata are version numbers: a change of the content changes
  the metadata (size or times). A change that keeps both cannot be seen by the
  code either, and is assumed away.
* Quarantine ids are drawn from a set that the instance gives. They may repeat:
  the code compares a new one with files only, and its generator is seeded with the
  low 32 bits of a clock (`QuarantineFileOperations.cpp:91`). Where two records have
  one id, `find` takes either. The check of a drawn id and the move are one step:
  between processes, two may draw one destination at the same moment, and the
  model leaves that out. Permissions and other fields of a record are left out.
* Generations count in naturals up to a bound; at the bound the table is wiped,
  as at the code's guard.
* The walker's paths are sequences of names, names are sequences of character
  codes. No entry of a directory is named `.` or `..`, and the scan root is
  written without them. Canonical paths are resolved over `LinkTarget`: where a link
  leads is fixed, and there is no other link on the way, unless it lies above the
  first. A `closed` directory can be neither read nor entered. The check of a file
  and its visit are one step; those of a directory, and its reading, are not. What a
  callback does is in `ScanPipeline`, whose walk is that of `ResumeScan` (a sequence of
  files in walking order).
* Signatures are a version of their file; a verdict is known by the versions it
  was computed from, and whether these match is a set of the instance. The
  counters are the sets of the files they count: a file that two of them count
  shows, one that the same counter counts twice does not.
* An edit of the signature file while it is loaded (`EditsMidLoad`) is switched on
  in no run; `pipeline_faults` excludes it, as the theorem does.
* Not modelled:
  - an exception in the walking thread (`bad_alloc`), after which `main` ends the
    process;
  - two *scanning* processes at once on the cache and the checkpoint, which
    nothing locks; two processes of any kind are modelled over the quarantine;
  - the loop of `reserveDestination`, which does not end while the quarantine
    directory cannot be examined;
  - a file that becomes a link between the walker's check and the worker's open;
  - `Logger`, `ConsolePrinter`, `PerformanceMonitor` (output that nothing reads
    back), packaging and test scripts, vendored libraries. The crash handler is
    the `Crash` action.

## 8. Plan

Done: the modules of section 2 in the order resume, pool, cache and pipeline,
quarantine, walker, automaton; then signatures, counters and the outcome of
quarantine in the pipeline, the application over the quarantine, and the
exclude rules; the theorems of section 5.

Next, to prove:
1. `PathOrder`: that `OrdersAgree` holds of every set of paths whose names have
   no character below `/`, which would turn the hypothesis of
   `ResumeIsSafe` into one on the names of files. It takes induction over the
   characters of a joined path, in the manner of `LeastNumber`.
2. The composition: a walk as `FileTreeWalker` proves it is a walk as
   `ResumeScan` assumes it (files in walking order, each once, and a resumed walk the
   rest of a fresh one). Today the two meet in the README only.
3. The pipeline over `TaskPool`: the tasks of `ScanPipeline` as those of the pool.

To model, if the program grows that way: two scanning processes over one cache
and checkpoint, once the code has a lock to check.
