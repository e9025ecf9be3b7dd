# A formal model of the SAP Datasphere CLI

The repository holds two Python packages: `datasphere_core`
(`src/packages/datasphere-core`), an asyncio library that sends commands to a
Datasphere tenant, and `datasphere_cli` (`src/src/datasphere_cli`), a terminal
program on top of it. The specifications here model the parts of them whose
behaviour over time is hard to test: batches of concurrent operations, the runs
they start on a tenant, cancellation and timeouts, tokens shared by several
processes, changes of metadata that others change too, result files under
crashes, the terminal's screens and worker, the HTTP log and the browser login.
TLC checks them on small instances; TLAPS proves the results for every size.

Paths below are relative to `src/packages/datasphere-core/src/datasphere_core`
unless they start with `src/`.

## Inventory

| Component | State it keeps | Operations | Talks to |
|---|---|---|---|
| **Batch execution** `runtime/execution.py` | item tasks, semaphore, counters and lock of `BatchReporter`, phase of the command | `_execute`, `run_batch`, `_gather`, `BatchReporter.complete`, `execute_with_concurrency_limit` | every batch command; the caller's callbacks |
| **Remote runs** `commands/task_chains.py`, `commands/shared/{task_logs,persistence}.py`, persist and unpersist in `commands/views.py` | log ID of the started run, time it has been polled | read the monitor, start, poll, time out, hand on a cancellation | task framework of the tenant |
| **Persistence measurement** `commands/analytical_models.py` | measurement per view, its cleanup task, models waiting for views | `_measure_view`, `_run_cleanup`, `_measure_dependencies` and `finalize` | persistence of the tenant, batch-item callback |
| **View analyzer** `commands/views.py` | log IDs known before the start, log ID followed | `_start_view_analyzer`, `_match_analyzer_log`, `_run_view_analyzer` | a task log shared with all other users |
| **Session** `session/*.py` | access token in the client, refresh token in the OS credential store, two locks | `authenticate`, `logout`, refresh, interactive login | token endpoint, credential store, other processes |
| **View partitioning** `commands/views.py` | none (the tenant's) | create, delete, lock, unlock: read, decide, write | partitioning of a view, kept by the tenant without a version |
| **Remote table statistics** `commands/remote_tables.py` | metadata read once per batch | discover, configure, refresh | remote tables of the tenant, other users |
| **Model dependencies** `commands/analytical_models.py`, `commands/repository.py` | two searches, a task per model, the views seen so far | search, resolve, deduplicate, report | repository of the tenant |
| **Attribute matches, partition candidates** `commands/views.py` | none | selection from metadata read by one request | repository of the tenant |
| **Result files** `src/src/datasphere_cli/files`, `actions` | result files, temporary files, checkpoints | `_atomic_write`, `initialize_result`, `read_task_csv`, checkpoints, final results | file system, other processes of the workspace |
| **Terminal UI, settings** `src/src/datasphere_cli/cli`, `settings.py` | stack of screens, worker, heading, settings in memory and in their file | keys of four screens, execution of an action, save and reload, quit | the actions, the session, other processes of the workspace |
| **HTTP logging** `http_logging.py` | current log, event number, open file | start, record, stop | file system, threads that send requests |
| **Interactive login** `session/oauth.py` | dictionary and event shared with a server's thread | serve, wait, answer the callback, stop, exchange | browser, other programs of the machine |
| **Registry** | none over time | — | — |

### How they interact

A CLI action calls one batch command with two callbacks. `batch_command` wraps
it in `_execute`, which reports the lifecycle; `run_batch` creates one task per
item, each of which takes a permit of a semaphore, runs its operation, gives
the permit back, and is then recorded under the reporter's lock: counters,
`advanced` update, result. An operation sends requests through the session's
client; most start a run on the tenant and poll its task log. An item that
raises ends the batch: `_gather` cancels and awaits the others.

### What is hard, and what makes each part correct

- *Batch execution*: two callbacks going on at once, a cancellation at any
  await (also a second one, during the drain), an operation or a callback that
  raises. Correct when at most `max_concurrency` operations run, no permit or
  lock is lost, counters and updates stay in step, no task survives the
  command, nothing is reported after the terminal phase, and the command ends.
- *Remote runs*: the run goes on whatever happens to the operation that
  started it; the answer to a start can be lost. Correct when a result tells
  what became of its run and every run that may be going can be traced.
- *Measurement*: a view is persisted only to be measured, so it must be
  removed again, or flagged, after failures, timeouts and cancellations at any
  point; data somebody else persisted must stay; a view shared by models is
  measured once and each model is reported once, when it is final.
- *Analyzer*: the own run must be told from others in a log that shows it
  late, while the answer to the start need not name it.
- *Session*: a refresh token may be replaced whenever it is used, so a lost
  answer, a crash or two processes at once can leave a stored token that is
  worth nothing.
- *Partitioning*: what is read is stale when it is written back, an answer may
  be lost and the request made again over its own late effect. Correct when a
  request nobody overtook took effect entirely or not at all, and its status
  says which.
- *Statistics*: one read decides for all tables. Correct when statistics that
  somebody created since are not replaced, and statuses are still true.
- *Dependencies*: tasks end in any order. Correct when every view is kept for
  the first model that needs it, and before everything that depends on it.
- *Result files*: a crash between two steps of a replacement, a checkpoint over
  an earlier result, two processes in one workspace. Correct when a reader finds
  whole documents, and in them what was reported or shown as completed.
- *Terminal*: keys, a failing sign-in, a failing close, saved settings and Ctrl+C
  while an action is going. Correct when the screen tells how the action ended
  and is left only when the worker is done.
- *HTTP log*: threads write while it stops, and a write may fail. Correct when
  the file can be read and counts itself.
- *Login*: callbacks arrive in another thread, several times, late, or with an
  error. Correct when only a code with the own state is exchanged, and nothing of
  the login outlives it.

`PROJECT.json` lists the hazards one by one, each at its line, with the
properties that would catch it going wrong, or why there is none.

## Modules

| Module | What it is |
|---|---|
| `BatchContract` | abstract: what a batch promises to the caller that supplied callbacks |
| `BatchExecution` | a batch command with its tasks, semaphore, lock and cancellation; implements `BatchContract` |
| `BatchExecution_proofs` | proofs about it |
| `RemoteRuns` | extends `BatchExecution`: its operation is a run on the tenant, and every step is a step of a batch by construction |
| `RemoteRuns_proofs` | proofs about it, resting on those about batches |
| `ViewMeasurement` | measurement of views with shielded cleanups, and the models that wait for them |
| `ViewMeasurement_proofs` | proofs about it |
| `SessionTokens` | signing in and out from several coroutines and processes |
| `SessionTokens_proofs` | proofs about it |
| `ViewAnalyzer` | telling one analysis from the other runs in a task log |
| `ViewAnalyzer_proofs` | proofs about it |
| `Dependencies` | the two searches, the resolution of models side by side, and the order of their views |
| `Dependencies_proofs` | proofs about it |
| `Partitioning` | the four requests that change the partitioning of a view, with lost answers and retries |
| `TableStatistics` | batches that configure or refresh statistics from metadata read once |
| `Tenant_proofs` | proofs about these two |
| `ResultFiles` | runs of actions and the files they replace; crashes and power losses |
| `Terminal` | extends `ResultFiles`: processes with screens, the keys in their queues, and workers that execute the runs |
| `HttpLog` | the log several threads write to |
| `OAuthCallback` | the browser login, which is one step of `SessionTokens` |
| `Client_proofs` | proofs about these four |
| `MC...` | values of the constants for TLC, and what the documentation promises |

`MCTenant` and `MCClient` put independent parts side by side: in a behaviour one
of them moves, chosen by the initial state, and the others keep one initial
state. A configuration with a module's own name holds what is true. One named
after a property (`BatchExecution_ExactlyOneTerminalPhase.cfg`) checks a
sentence of the documentation that the code does not keep.

### Reading the models beside the code

Coroutines of one event loop run from one await to the next without
interruption. So **a step of a model is what the code does between two
suspension points**, and variables such as `command`, `task`, `place` or
`stage` name the await at which a coroutine is suspended.

- *Cancellation.* `Task.cancel()` only requests it: the item joins
  `cancelling`, and `CancelledAt` raises it at the await when the loop resumes
  the task. While it is pending the await cannot return. A command that awaits
  `asyncio.gather` is not cancelled itself: the gather cancels its tasks, and
  the gather's future takes the exception of the *first* task that ends with
  one (`gathered`). A gather that is already done cannot pass a cancellation
  on; then the command is interrupted (`interrupted`). `_gather` cancels every
  unfinished task again in its `except` block, which is why a task can be
  cancelled twice for one request.
- *`asyncio.shield`.* A cancellation ends the waiting, not the task that is
  shielded. `_run_cleanup` answers the first one by awaiting the cleanup task
  directly (`shielding` to `awaiting`); a second one therefore reaches it.
- *Semaphore and lock.* Tasks get permits in the order they were created, as
  `asyncio.Semaphore` does. The reporter's lock goes to any waiting item: more
  behaviours than the FIFO of `asyncio.Lock`, so what holds here holds there.
- *Timeouts.* A poll under `asyncio.timeout` may time out at every moment,
  also when the run has just ended. Times have no values.
- *The tenant, the endpoint, the store, other users* are external and modelled
  by what the code assumes of them: an accepted run ends on its own or never,
  an answer may be lost after the request had its effect, an unreadable answer
  is an exception. They are marked external in the map. In `ViewMeasurement`
  other users persist a view or remove what it holds at any moment, also
  between two steps of its measurement (`OthersStep`); `disturbed` remembers
  those views with which they did so after the monitor had been read. In
  `ViewAnalyzer` the tenant runs one analysis of a view at a time, which is
  what the answer 409 in `_start_view_analyzer` says, and a run shows in the
  log at the latest when it has ended. In `Partitioning` and `TableStatistics`
  a request whose answer is lost may be carried out at once, later or never; a
  creation of statistics is refused where there are some.
- *Callbacks* of a caller return, raise or are cancelled: those of items
  (`CallbackRaises`) and those that report the lifecycle of the command
  (`AnnounceFails`, `ReportFails`).
- *Threads.* `HttpLog` and `OAuthCallback` have real threads, whose steps lie
  between any two of the event loop. The lock of a log is held for one step and
  never together with another, so that recording an event is one action. In
  `SessionTokens` a thread writes to the store, and another one tries to take the
  lock file. The second kind goes on when the caller that waited is cancelled
  (`tries`), and may then hold the file for nobody (`stray`), until a call of the
  same session, which may enter, leaves it, or the process ends.
- *File system.* A rename is visible at once (`visible`) and survives a power
  loss after some time (`durable`, `Commit`), because nothing synchronises the
  directory. A process that is killed leaves what is visible.
- *Processes with a terminal* have one event loop each. While an action works
  without awaiting, or settings are saved, no key is handled (`Free`). A key
  belongs to the screen that is on top when it is pressed and waits in the queue
  of that screen. So it may be handled late: when another screen covers its own,
  or when its own was removed (`left`; the text of a removed screen is still
  there to be confirmed). A stack in which this happened is `rushed`. A run that
  ends with its process is `killed`.
- *Libraries* whose sources are not in the repository are modelled from how they
  are used and from what is known of them: queues and removal of screens in
  Textual, the thread in which `AsyncFileLock` acquires its file, gathers, shields
  and semaphores of asyncio.
- *Data.* An item's result is its outcome or status; a refresh token is a
  number, later ones larger; a log ID is the number of its run. Requests,
  messages, URLs and times of runs are left out. Items of a result file are the
  numbers of their rows: the code sorts them so, and a document is told by the
  set of its items. A partition is the years it lies between; a bound that
  `int()` refuses is one value. The tenant's answer about what a model or view
  depends on is a finite tree, as the JSON it is read from; which
  entities it names is arbitrary.

Names follow the code: `Record` is `BatchReporter.complete` up to its first
await, `BatchPhase` is `_batch_phase`, `Settle` is what a gather does when one
of its tasks ends, `Matching` is `_match_analyzer_log`. The `map` of
`PROJECT.json` gives the lines of every definition. Definitions introduced by
"Mutant:" are plausible slips in the code (a dropped guard, a lost reset, a
missing await). They are used by no specification; each takes the place of the
definition it is listed with in `PROJECT.json` to see that the property fails.

## What TLC checks

| Run | Instance | Distinct states | What it shows |
|---|---|---|---|
| `batch` | 3 items, 2 at a time, 2 cancellations | 878,206 | bookkeeping and cancellation are right in every interleaving; the contract with the caller is kept; a batch ends if its operations do, and stopped it ends in any case |
| `runs` | 2 items, 1 at a time, 2 cancellations, starting and removing | 142,165 | results are truthful, runs traceable; the batch ends whatever the tenant does |
| `view` | 2 views, 3 models (one shared view, one model without views, one with an unresolved dependency), 2 at a time, 2 cancellations, others busy with one of the views | 1,247,220 | nothing stays persisted without a flag, others' data is kept, every model is reported once and when it is final, a measurement ends |
| `session` | 2 processes, 2 coroutines in one of them, a cancellation (also of a wait for the lock file), a crash | 574,761 | one caller works at a time; a sign-in leaves a usable token; every call ends |
| `analyzer` | 1 call, 3 runs on the view | 82,510 | the call follows one recent run, finds its own and reports how it ended |
| `tenant` | 2 callers on one view with 2 attempts each; 2 batches on 4 tables next to another user; 2 models over 3 views and a table, in requests of up to 3 references, 2 at a time | 2,753,403 | results describe what is on the tenant, what others made survives, views are kept once and bottom up |
| `client` | 2 terminals and 2 runs (a checkpointing command, an export) with a power loss, saved settings, or two late keys; 2 threads, 2 logs; 3 callbacks | 4,125,634 | files are whole, reports and screens true, logs readable, logins settled |

The properties, with what each is about:

- `BatchExecution`: `ConcurrencyBound` (permits and running operations always
  add up), `CountersInStep`, `ReturnIsComplete` (a summary counts exactly the
  results), `NoOrphans`, `NoWorkAfterFailure`, `KeepsContract` (refinement:
  callbacks one at a time, a terminal phase last), `StopEnds`, `Terminates`.
- `RemoteRuns`: `ResultsAreTruthful`, `LiveRunsAreKnown` (a run that may be
  going after the batch returned is named by a `timed_out` result with a log
  ID; no more than `max_concurrency` others are going), `RunsTerminate`.
- `ViewMeasurement`: `LeftoverFlagged`, `RemovedIsGone`,
  `CompletedModelIsClean`, `ReportedWhenFinal`, `CleanupUndisturbed` (another
  view's failure cancels once, and one cancellation does not get through the
  shield), `ForeignDataKept`, `Terminates`. What the code cannot know is
  excepted by name. A view whose earlier data others removed after the monitor
  had been read is `already_persisted` and not flagged (`Misread`). Data that
  others made after it had been read, and found nothing, is removed.
- `SessionTokens`: `OneAtATime`, `AuthenticatedIsUsable`, `LogoutSticks`,
  `CallsEnd` (but for calls that wait for another process that took the lock
  file for a caller that is gone). The second and third are stated for
  histories without a cancellation, because a cancelled call leaves its thread
  going (see below).
- `ViewAnalyzer`: `ResultIsRecent`, `ResultIsTruthful`, `FollowsOneRun`,
  `OwnRunIsFound`. "Recent" is relative to a history variable, `over`, which
  records the runs that had ended when the call began.
- `Partitioning`: `ResultDescribesView` (what a request is for is said by
  `Fulfils` in the words of `src/README.md`, not by the operators that compute
  the new document), `ExistingIsKept`. Both are about callers nobody overtook,
  a history variable: two writers of one view do overtake each other.
- `TableStatistics`: `UnseenStatisticsAreKept`, `StatusDescribesTable`.
- `Dependencies`: `KeptOnceBottomUp` against a definition by reachability,
  `NoResolutionOutlives`.
- `ResultFiles`: `FileIsWhole`, `ReportedIsOnDisk`, `ResultsAreComplete`.
- `Terminal`: `ShownOutcomeIsTrue`, `ScreensFollowWorker`: however late keys are
  handled, every execution has one worker and a worker that was not cancelled one
  screen. That leaving it shows the menu holds only while no key was late.
- `HttpLog`: `LogReads`. `OAuthCallback`: `LoginIsSettled`.

### Bounds, and why they are enough

`MaxCancels`, `MaxCalls`, `MaxCrashes`, `MaxRuns`, `MaxAttempts`, `MaxChanges`,
`MaxItems`, `MaxPowerLosses`, `MaxSaves`, `MaxDisturbed`, `MaxLate`, `MaxLogs`,
`MaxEvents` and `MaxCallbacks` are bounds of the model, all named in a guard.
Two cancellations are the most that differ: the first one makes a command
drain, the second interrupts the drain, a third meets a task that is cancelled
already or has ended. Three items at two permits are the fewest with one
queued, one running and one reporting at a time; the proofs remove this bound.
Two views are the fewest for a failure of one to disturb the cleanup of another
and for a model to wait for a view that another one shares. Two processes, one
of them with two coroutines, are the fewest that need both locks. One analyzer
call is enough because other calls for the view are to it what any other user
is; three runs allow one known before, one own, and one of others in between.
`runs` starts in both kinds of commands: with a monitor read first (removal)
and without (start, persist).

Two callers on one view with two attempts each let a lost write arrive between
two attempts, before or after the other caller's. Three years allow a lock that
takes in some ranges and not others, and a range of two years. The four tables
are one of each kind: free, limited to the record count, unsupported and
unknown. The trees of `Dependencies` have views reached on several ways, shared
by both models and nested three deep; a model may be requested twice. Two runs
on one file are the fewest that replace each other's results; two items the
fewest with a checkpoint between them. The run looks at
a power loss for a measurement next to an export and for two exports, at two
measurements of one file without it, and at saved settings next to two exports:
saving touches no result file, so the product of all of them says nothing more.
Two late keys, in one process next to two exports, are the fewest that execute
twice from one screen and leave it twice; `Reserved` keeps the last run for
questions that are open, so that bounding the runs does not strand them. One
view that others meddle with is enough because views meet only in the models
that wait for them, which see the results and not the data.
Two threads
next to the one that stops the log are enough for records on both sides of its
closing event, two logs for a record that comes to the wrong one. Three
callbacks allow an error, a code and a silent connection in any order.

### Fairness

- The event loop resumes every coroutine that can go on, and callbacks return:
  weak fairness of the command's and each task's steps.
- A request is answered or fails: the HTTP client has a timeout. A poll ends
  at the latest with its `asyncio.timeout`.
- Nothing is assumed of the tenant: runs may go on forever.
- No failure is ever forced: the fairness conditions are on steps other than
  exceptions, so a property cannot hold just because something must go wrong.
  The one exception is a start request of `RemoteRuns` that is never answered:
  it fails with the client's timeout.
- In `BatchExecution` nothing is assumed of the operations. `Terminates` names
  its assumption (`OperationsEnd`) itself; `StopEnds` needs none.
- In `SessionTokens` the locks need only weak fairness: a caller waiting for a
  lock competes with finitely many calls (`MaxCalls`), so starvation by an
  endless stream of new callers is not covered.
- `ViewAnalyzer`, `MCTenant` and `MCClient` assume no fairness and check safety
  only. The last two say `CHECK_DEADLOCK FALSE` because their parts really come
  to an end: requests are answered, processes have quit, logins are over.

## What is proved

Every theorem holds for all values of the constants, from the assumptions the
modules state: sizes and bounds are natural numbers, `MaxConcurrency` a
positive one, `DependsOn` and `Incomplete` speak of views and models of the
request, every caller belongs to one session, `Nobody`, `Others`, `Nil`,
`NoCode` and `NoColumn` are not what they stand in for, years are positive and
without gaps, special tables are tables of the space, requested models are
models, and an answer about dependencies is a finite tree. Every safety
property that a passing run checks is proved, and so is the refinement
`KeepsContract`. Of liveness, the parts that are safety are proved as well:
nobody waits in a circle, and there is only so much to do (see the end of the
sections on batches, runs, measurements and sessions).

### Batches (`BatchExecution_proofs`)

The invariants are proved one on top of the other; each layer is inductive
relative to the ones before.

1. `TypeOK` with `OutcomeKnown`: an item that left its operation with a result
   has an outcome. The type of the counters needs it: `AcquireLock` counts an
   outcome chosen by an earlier step.
2. `Placed`: where tasks can be while the command is in some place. The heart
   of it: while `_gather` drains, *every* unfinished task has a cancellation
   pending. From it follow `NoOrphans` and `NoWorkAfterFailure`.
3. `ConcurrencyBound`: inductive as it stands, given the frame of an item's
   step (`ItemFrame`) and facts about cardinalities.
4. `Reporter`: `ReportsSerialised` (an item is inside its callbacks exactly
   while it holds the lock), `CountersInStep` and `Told` (how far an
   item got tells what the caller has heard of it). `CountersInStep` alone is
   not inductive: that no item advances twice needs `Told`.
5. `Ending`: the gather's future knows of every task that did not return, and
   a terminal phase has been reported only on the way out. It gives
   `TerminalIsLast`.
6. `Books`: each counter is the number of reported items with its outcome; with
   `Ending` and `Told` it gives `ReturnIsComplete`.
7. `ContractIsKept`: under the refinement mapping at the end of
   `BatchExecution` every step is one of `BatchContract` or a stutter.

What `Terminates` and `StopEnds` rest on is proved without fairness. The guards
of the fair steps are spelled out (`CommandGoesOn`, `ItemGoesOn`), because
`ENABLED` is beyond the prover.

8. `NeverStuck`: until the command has ended, it or an item can go on, or an
   operation is running. The lock is free when nobody is inside
   (`ReportsSerialised`), a permit is free when no operation runs
   (`ConcurrencyBound`), and the first item that waits for one may have it.
9. `StopIsHeard`: after a cancellation or a failure, what goes on is not an
   operation that returns by itself. It needs `Heard`: a cancellation of a
   command that gathers is pending for *every* unfinished task until the gather
   knows of an exception. This is why the end of a stopped batch needs no
   assumption about operations.
10. `Work`: every step adds to it and it is at most `MostWork`, 6 + 6N and the
   cancellations. So a batch does not go round, whatever the order of its steps.

### Remote runs (`RemoteRuns_proofs`)

Every step of `RemoteRuns` is one of `BatchExecution` by construction (lemma
`RunsAreBatches`), so all of the above holds of it. `Accounted` says what is
known of a run wherever its operation is suspended (nothing was requested
before the operation ran, a polled run was accepted, a result is truthful). It
gives `ResultsTellTheTruth`; with `ConcurrencyBound` and `ReturnIsComplete` it
gives `LiveRunsCanBeTraced`; `Placed` gives `NothingStartsWhileDraining`.

`RunsNeverStuck` is `NeverStuck` with operations that go on by themselves: a
running operation always awaits a request or polls (`Requested`), and both end
whatever the tenant does. `RunsWork` adds at most 5 steps for each item, those of
its run on the tenant included.

### Measurements (`ViewMeasurement_proofs`)

`StepShapes` sorts the steps of a measurement: it records its result, ends with
an exception, or moves on. `Inv` has four parts, and each step is shown to keep
each of them.

1. `Types`.
2. `ViewInv`, for each view by itself. `Data`: unless others disturbed the view
   since, data of others was there when the monitor was read, and what was read
   is still there; that needs no word about how often they acted before.
   `Cleaning`: a cleanup exists only for a view that held no data before and
   whose run has completed, and a removal runs only for a cleanup. `Judged`:
   a result that is not flagged means that others' data was read or that the
   cleanup saw the data gone. Together they give `LeftoversAreFlagged`,
   `RemovedDataIsGone` and `ForeignDataIsKept`.
3. `Control`, the command's side. `Placed`: where measurements are while the
   command is somewhere. `Targeted`: a cancellation is pending only for one
   that goes on and does not await its cleanup yet. `Undisturbed`: without a
   cancellation of the caller, a measurement is cancelled only when the command
   begins to drain, which its shield withstands. With `Cleaning` it gives
   `NoCleanupIsOrphaned` and `CleanupsAreUndisturbed`.
4. `ModelInv`. `Waiting`: a model waits for exactly its views that are not
   measured yet, and is in the hands of at most one measurement once it waits
   for none. `Reporting`: what is reported, and that its status is still what
   the measurements say. `ModelsAreReported` needs both, and
   `CompletedModelsAreClean` needs them to take a model's status back to the
   views it was made of.

`NeverStuck` needs one invariant more, `ViewsResumable`: who waits for a cleanup
has one, going or ended, and who is to report has something to. Then a
measurement between admission and result can go on, or its cleanup can; if there
is none, the first one queued is admitted. `Work` counts the steps of each
measurement, its cleanup and its two runs, at most 17 for a view; what others do
leaves it as it is, so the theorem asks for no end of that. A report is two
steps on and one back, because a measurement returns to `finalizing` for the
next model.

### Sessions (`SessionTokens_proofs`)

Three layers. `Types`. `Locked`: whoever is inside holds the lock of its own
session, whoever works on the tokens holds the lock file, and all that hold it
are of one session; it gives `OneCallerAtATime`. `Guarded`: what a caller has
called (`Calling`), that a write is awaited by the one caller that issued it
unless somebody was cancelled (`Writing`), and, without a cancellation, that a
caller that saves has a token the endpoint accepts, which is in the store when
its write is over (`Saving`). It gives `WritesAreAwaited`,
`LoggedOutStaysLoggedOut` and `AuthenticationIsUsable`. An old token that is
invalidated by its use does no harm exactly because its user is alone.

`WaitsForLiving`: every caller that waits, waits for one that can go on (itself,
the owner of its session's lock, or a holder of the lock file) or whose write a
thread is busy with, unless another process holds the lock file for nobody
(`Abandoned`). It needs `Owned`: the lock of a session is with a caller of
that session that is inside or waits for the file, so that a call that ended, was
cancelled or died with its process has left it. The lock file may be held by
several coroutines of one process (`holders`), as in the code.

### Analyses (`ViewAnalyzer_proofs`)

`Logged` says what is in the log: only runs that were started, and every run
that has ended; `LogGrows`, that entries do not vanish or change their activity.
On top of them, `Follow`: the log read before the start held everything that
had ended by then, so a run outside of it is recent (`ResultsAreRecent`), and a
call completes only with the run it follows (`ResultsAreTrue`); `Own`: a call
that started a run, and has not found it in the log, has one to find
(`OwnRunsAreFound`, once nothing is going any more). `OneRunIsFollowed` follows
from the steps that set the log ID.

### Metadata of the tenant (`Tenant_proofs`)

*Partitioning.* `ResultDescribesView` says nothing of a caller between two
attempts, nor of writes that are still on their way. `Goal` is the document a
request aims at, from the one there was when its caller first began.
`PartInv` says of a caller nobody overtook: its view is as it was or at its goal,
whatever it writes or may still write is the goal, and a success has reached it.
It is inductive because the goal of a lock, an unlock or a creation stays the
same when it is computed from the goal (`GoalIsStable`): that makes a retry over
a late effect harmless. That the goal fulfils the request is arithmetic about
years.

*Statistics.* `StillTrue`: what a batch read of a table is true while nobody else
changed it and the batch did not write it. `Sent`, `Wrote` and `Status` say what
was decided by it and when a table was written; together they give
`StatusDescribesTable`. `UnseenStatisticsAreKept` follows from each step alone.

### Dependencies (`Dependencies_proofs`)

The tree of an entity, the views in it and their order are recursive functions
over the tenant's answer, which TLA+ defines by `CHOOSE`. So the first part shows
that something satisfies such an equation: if every nonempty set of arguments
has one that depends on none of them (`Grounded`, the assumption about answers),
there is a solution on the arguments below any one of them, and two solutions
agree (`SolutionsAgree`). Folds over sequences are unrolled in the same way,
into the list of their intermediate results.

On top of that the operators are characterised. `TreeIs`: a tree is its root
and what is below it. `CollectViews` lists exactly the views of a tree, each
before what it depends on (`CollectsRight`), possibly several times. In the
reversed list everything comes after what it depends on, and it still does when
only the first of each is kept (`StepIsDistinct`), because what goes had come
before (`BottomUpIs`). `SeenIs`: what was taken before is what an earlier
reference needs.

`DepKept` is the inductive invariant: each list kept so far is right for its
reference (`KeptRight`), among those before it. That nothing is kept before what
it depends on *across* references is not part of it and follows (`AcrossModels`):
an earlier reference that needs a view needs all below it. `DepStages`,
`DepCounts` and `DepReports` relate the stage of the command to its tasks and to
how many references were taken and reported; they give `NoResolutionOutlives`.

### The machine of the user (`Client_proofs`)

*Result files.* `Sound` says what is known of a run from its place. `FileInv`
adds `Shown` (a document, visible or durable, shows what its run has done, and
only a run under checkpoints shows a part) and `Held` (what a run has logged, or
is about to, is in its file until another run replaced it). `ResultsAreComplete`
is not inductive without the place after the rename, where a run is complete but
has not returned. `FileIsWhole` needs only that a name is given to a document
that was synchronised.

*Terminal.* Every step of a terminal is a step of `FileSpec` or leaves the files
alone (lemma `TerminalsRunActions`), so that what is proved of files holds of
terminals; a cancelled or left run must be one the process is executing. Three
layers follow. `TermSound`: types, what is known of a worker by itself (`Well`)
and of a process by itself (`Lives`). `AllAgree` ties a worker to its run: how a
run ended is what the heading says, and no run is going without an acting worker.
`AllPlaced` ties workers to screens: an execution screen and a worker that was
not cancelled belong to each other one to one, in one process, wherever in the
stack the screen is. That is what holds for any number of late keys, because
removing a screen, whichever key does it, cancels the worker of exactly that
screen (`PopPlaced`), and a confirmation pushes a screen with a worker of its
own, however often the same question is confirmed (`ExecutePlaced`). `Tidy`, a
part of it, says what lies on what in a stack that is not `rushed`.

*HTTP log.* `Numbered`, `Finishes` and `Controlled`: an open log has as many lines
as it gave numbers, the current log has no closing event before the thread that
stops it records one, and the count it took falls short only of records that
raced with it.

*Login.* `NotedFirst`: whatever wakes the loop noted a code or an error before.
`Inside`: browser and server live inside the call.

### Model-checked only

Liveness itself (`Terminates`, `StopEnds`, `RunsTerminate`, `CallsEnd`): fairness
and `ENABLED` are beyond this prover. What separates the theorems on `NeverStuck`,
`StopIsHeard` and `Work` from it is that a fair step that can go on is taken.

## Where the code and its documentation disagree

Each of these is a run that TLC finds violated.

| Run | What is said | What happens |
|---|---|---|
| `batch_one_terminal_phase` | "exactly one terminal phase" (`docs/datasphere-core-execution.md:117`) | the first `started` is reported outside the `try` of `_execute`; an exception of that callback, or a cancellation during it, ends the command without any |
| `runs_cancellation_names_run` | "`CommandCancelledError`: If the command was cancelled after a task chain had already started remotely" (`commands/task_chains.py:231`) | the gather raises what the *first* cancelled task raised, and an item that was queued, starting or reporting raises a plain `CancelledError` |
| `view_cleanup_still_finishes` | "shielded so that it still finishes if the surrounding command is cancelled" (`commands/analytical_models.py:601`) | two views: the caller's cancellation reaches both; one ends, `_gather` cancels the other a second time, and that gets through to the cleanup, which may not have started the removal |
| `session_parallel_writes` | "lock to prevent parallel processes from writing tokens" (`session/auth.py:107`) | a cancelled `authenticate` leaves its locks while its thread still writes |
| `client_existing_result` | "Creates a missing result schema without replacing an existing result" (`src/src/datasphere_cli/files/storage.py:156`) | the file is looked for first and the template renamed over it later: a result that another process of the workspace wrote in between is lost |

Seen while reading or modelling, without a run:

- A batch reports `started` twice, the second time with counters, where the
  documentation says once and without; it names 32 as the limit of
  `max_concurrency`, the code has 10.
- A cancellation of a measurement that is polling its persist run ends it
  without a cleanup, even if that run has completed unseen (the exception names
  the run).
- "`manual_intervention` is `true` if cleanup may still be required"
  (`src/README.md:440`): a view that was persisted when the monitor was read is
  `already_persisted`, without the flag (`commands/analytical_models.py:719`).
  If its owner removes that data before the persist run has ended, what the
  view holds afterwards is the measurement's, and nobody removes it
  (`Misread`).
- A view that others persist between the monitor read and the cleanup loses
  their data to the cleanup; the tenant does not tell whose data it is.
- `ExecutionScreen.on_key` "returns to the EntryScreen once done"
  (`src/src/datasphere_cli/cli/screens.py:943`): it removes two screens whatever
  they are. After a second Enter that the menu handled late, two screens with
  questions lie on each other, and leaving an execution shows the lower one; two
  late keys on the execution screen itself remove the menu as well. A second
  confirmation that was waiting executes the action a second time.
- A call that is cancelled while it waits for the lock file can leave a thread
  that takes it afterwards for nobody. The file is then taken until the next call
  of the same session or the end of the process (`session/auth.py:109`).
- "A run that was already going is as good as one this call started"
  (`commands/views.py:286`): without a log ID in the answer such a run is found
  only while it is active; if it ends before the first poll, the call polls
  until its timeout.
- `already_exists` counts as a success of a statistics request, also when the
  statistics that are in the way are of another type than the one asked for.
- Two writers of one partitioning overtake each other unnoticed; locking to an
  earlier year unlocks what was locked to a later one; a range of several years
  is locked as a whole if it begins early enough.
- Result files are "replaced only when a command writes its complete result"
  (`src/README.md:275`): a measurement replaces its file by partial results
  after every model, which is what its checkpoints are for.
- A checkpoint is "safely on disk" when it is logged
  (`src/src/datasphere_cli/actions/analytical_models.py:405`): its content is
  synchronised, but not the directory, so that a power loss may bring back the
  document before it. This is why `ReportedIsOnDisk` excludes power losses.
- Settings are overwritten in place; a text that is no TOML ends the terminal
  with whatever its worker is doing.
- A connection to the login's callback server that sends nothing keeps the
  event loop in the shutdown of that server after the browser is closed, when
  it belongs to another program. The model says when the shutdown may go on
  and assumes no fairness.

## Not modelled, and why

- *Pure input and output*: layout, progress widgets and texts of the terminal,
  log formatting and redaction, the columns of result files, what a valid
  setting is.
- *The direct command* that runs task chains without screens
  (`src/src/datasphere_cli/cli/task_chains.py`): one run of `ResultFiles` in a
  process of its own.
- *Attribute matches and partition candidates*: `find_view_attribute_matches`
  and the scores of the analyzer select from what one request read and keep no
  state; which columns match is data.
- *No behaviour over time*: the registry, filled at import; the projections of
  the repository search.
- *Single commands* run under the same `_execute`; they are a batch without
  tasks, and `BatchExecution` covers their lifecycle.
- *Validation* of requests: `MaxConcurrency` is only assumed positive, and
  intervals of years not inverted.
- *Waiting for a login*: the timeouts of the browser login are not shown to end
  it, see the last item above.

## Plan

In the order of importance; all of it is described above.

1. **Batches**: `BatchExecution`, `BatchContract`.
2. **Remote runs**: `RemoteRuns` on top of it.
3. **Measurement**: `ViewMeasurement`, and `Dependencies` before it.
4. **Session**: `SessionTokens`, and `OAuthCallback` for its browser login.
5. **Analyzer**: `ViewAnalyzer`.
6. **Result files**: `ResultFiles`, and `Terminal` on top of it.
7. **Metadata**: `Partitioning` and `TableStatistics`.
8. **HTTP log**: `HttpLog`.

What could be proved next: how many steps a
sign-in and a resolution of dependencies take.

What could be modelled: `ResultFiles` composed with the batch-item callback of
`ViewMeasurement`, so that a checkpoint is shown to hold what the measurement
found; liveness of the terminal, which needs an assumption about the closing of
sessions.
