--------------------------- MODULE ViewMeasurement ---------------------------
(***************************************************************************)
(* Measuring the persistence runtime of every view that some analytical    *)
(* models depend on (datasphere_core/commands/analytical_models.py): the   *)
(* per-view measurement `_measure_view`, its shielded cleanup              *)
(* `_run_cleanup`, the projection of measurements onto models in           *)
(* `_measure_dependencies`, and the gather they run under, together with   *)
(* the runs of the Datasphere tenant they start and remove.                *)
(*                                                                         *)
(* A view's measurement is a coroutine of its own; its cleanup is a second *)
(* task.  A step runs from one await to the next.                          *)
(***************************************************************************)
EXTENDS Integers, Sequences, FiniteSets

CONSTANTS
  NumViews,        (* number of unique views, in the order of collection    *)
  NumModels,       (* number of analytical models of the request            *)
  DependsOn,       (* resolved views of each model                          *)
  Incomplete,      (* models with a dependency that could not be resolved   *)
  MaxConcurrency,  (* max_concurrency of the request                        *)
  MaxCancels,      (* bound: how often the caller cancels the command       *)
  MaxDisturbed     (* bound: views that others use while they are measured  *)

Views == 1..NumViews
Models == 1..NumModels

ASSUME SizeAssumption == NumViews \in Nat /\ NumModels \in Nat
ASSUME DependsAssumption ==
  /\ DependsOn \in [Models -> SUBSET Views]
  /\ Incomplete \subseteq Models
ASSUME ConcurrencyAssumption == MaxConcurrency \in Nat \ {0}
ASSUME CancelAssumption == MaxCancels \in Nat
ASSUME DisturbedAssumption == MaxDisturbed \in Nat

VARIABLES
  (* the tenant *)
  owner,        (* who persisted the data a view holds, "nobody" if none    *)
  persistRun,   (* the PERSIST run this command started on the view         *)
  removalRun,   (* the REMOVE_PERSISTED_DATA run it started                 *)
  disturbed,    (* history: views whose data others made or removed after   *)
                (* their measurement had read the monitor                   *)
  (* the measurement of each view *)
  place,        (* where the measurement is suspended                       *)
  cleanup,      (* where its cleanup task is, or how it ended               *)
  previously,   (* previously_persisted, as read from the monitor           *)
  measured,     (* status of the measurement, "none" before                 *)
  manual,       (* its manual_intervention flag                             *)
  (* the models *)
  pending,      (* views each model still waits for                         *)
  toReport,     (* models a measurement completed and has yet to report     *)
  results,      (* status of each model's result, "none" before             *)
  reported,     (* models reported to the caller, in this order             *)
  (* the command *)
  command,      (* where the command itself is suspended                    *)
  gathered,     (* exception the gather future ended with, or "none"        *)
  cancelling,   (* measurements with a cancellation not delivered yet       *)
  stopping,     (* cleanups with a cancellation not delivered yet           *)
  cancels       (* cancellations requested by the caller so far             *)

tenantVars == <<owner, persistRun, removalRun, disturbed>>
viewVars == <<place, cleanup, previously, measured, manual>>
modelVars == <<pending, toReport, results, reported>>
commandVars == <<command, gathered, cancelling, stopping, cancels>>
vars == <<tenantVars, viewVars, modelVars, commandVars>>

RunState == {"none", "running", "completed", "failed"}

Place ==
  {"absent", "queued", "checking", "starting", "polling", "shielding",
   "awaiting", "finalizing", "delivering", "done", "failed", "cancelled"}
Settled == {"done", "failed", "cancelled"}

CleanupActive == {"reading", "posting", "removing"}
CleanupEnd ==
  {"removed",      (* returned True                                         *)
   "refused",      (* returned False: unreadable, not started or failed     *)
   "interrupted",  (* returned False and the log ID of a cancelled removal  *)
   "timed_out",    (* raised CommandTimeoutError                            *)
   "errored",      (* raised any other exception                            *)
   "aborted"}      (* was cancelled before the removal had started          *)

Status ==
  {"completed", "already_persisted", "persist_failed", "persist_timed_out",
   "cleanup_failed", "cleanup_timed_out"}

Raised == {"error", "cancelled"}
Ended == {"returned", "raised"}

Admitted == {v \in Views : place[v] \notin {"absent", "queued"} \cup Settled}
Unfinished == {v \in Views : place[v] \notin {"absent"} \cup Settled}
Reported == {reported[k] : k \in 1..Len(reported)}

-----------------------------------------------------------------------------
Init ==
  /\ owner \in [Views -> {"nobody", "other"}]
  /\ persistRun = [v \in Views |-> "none"]
  /\ removalRun = [v \in Views |-> "none"]
  /\ disturbed = {}
  /\ place = [v \in Views |-> "absent"]
  /\ cleanup = [v \in Views |-> "none"]
  /\ previously = [v \in Views |-> FALSE]
  /\ measured = [v \in Views |-> "none"]
  /\ manual = [v \in Views |-> FALSE]
  /\ pending = DependsOn
  /\ toReport = [v \in Views |-> {}]
  /\ results = [m \in Models |-> "none"]
  /\ reported = <<>>
  /\ command = "preparing"
  /\ gathered = "none"
  /\ cancelling = {}
  /\ stopping = {}
  /\ cancels = 0

-----------------------------------------------------------------------------
(* The tenant (external): a run it accepted ends by itself, whoever still  *)
(* watches it.  Data that others persisted stays theirs when the view is   *)
(* persisted again.                                                        *)

Persisted(v) == owner[v] # "nobody"

PersistRunEnds(v, state) ==
  /\ persistRun[v] = "running"
  /\ persistRun' = [persistRun EXCEPT ![v] = state]
  /\ owner' = IF state = "completed" /\ ~Persisted(v)
                THEN [owner EXCEPT ![v] = "command"] ELSE owner
  /\ UNCHANGED <<removalRun, disturbed, viewVars, modelVars, commandVars>>

RemovalRunEnds(v, state) ==
  /\ removalRun[v] = "running"
  /\ removalRun' = [removalRun EXCEPT ![v] = state]
  /\ owner' = IF state = "completed" THEN [owner EXCEPT ![v] = "nobody"] ELSE owner
  /\ UNCHANGED <<persistRun, disturbed, viewVars, modelVars, commandVars>>

(* Somebody else persists the view or removes what it holds, at any time,  *)
(* also between two steps of its measurement.                              *)
Unread == {"absent", "queued", "checking"}

OthersStep(v) ==
  /\ \/ owner[v] # "other" /\ owner' = [owner EXCEPT ![v] = "other"]
     \/ owner[v] # "nobody" /\ owner' = [owner EXCEPT ![v] = "nobody"]
  /\ disturbed' = IF place[v] \in Unread THEN disturbed ELSE disturbed \cup {v}
  /\ Cardinality(disturbed') <= MaxDisturbed
  /\ UNCHANGED <<persistRun, removalRun, viewVars, modelVars, commandVars>>

RunEnds(v) ==
  \E state \in {"completed", "failed"} :
    PersistRunEnds(v, state) \/ RemovalRunEnds(v, state)

TenantStep(v) == RunEnds(v) \/ OthersStep(v)

(* A start request that was not answered may have been accepted.           *)
MaybeStarted(run, v, sent) ==
  IF sent THEN {run, [run EXCEPT ![v] = "running"]} ELSE {run}

-----------------------------------------------------------------------------
(* Results.                                                                *)

(* Mutant: a failed cleanup is not a failure of the model. *)
LenientModelStatus(m) ==
  LET statuses == {measured[v] : v \in DependsOn[m]}
      timedOut == statuses \cap {"persist_timed_out", "cleanup_timed_out"} # {}
      failed == m \in Incomplete \/ "persist_failed" \in statuses
  IN  IF timedOut THEN "timed_out" ELSE IF failed THEN "failed" ELSE "completed"

(* _create_measurement_result_for_model, for a model that was found. *)
ModelStatus(m) ==
  LET statuses == {measured[v] : v \in DependsOn[m]}
      timedOut == statuses \cap {"persist_timed_out", "cleanup_timed_out"} # {}
      clean == m \notin Incomplete /\ statuses \subseteq {"completed", "already_persisted"}
  IN  IF timedOut THEN "timed_out" ELSE IF clean THEN "completed" ELSE "failed"

(* Projects one model and hands it to BatchReporter.complete. *)
Finalize(m) ==
  /\ results' = [results EXCEPT ![m] = ModelStatus(m)]
  /\ reported' = Append(reported, m)

(* Mutant: every model of the view is finalized, not only those that do    *)
(* not wait for another view.                                              *)
RecordEager(v, status, flag) ==
  /\ measured' = [measured EXCEPT ![v] = status]
  /\ manual' = [manual EXCEPT ![v] = flag]
  /\ pending' = [m \in Models |-> pending[m] \ {v}]
  /\ toReport' = [toReport EXCEPT ![v] = {m \in Models : v \in pending[m]}]
  /\ place' = [place EXCEPT ![v] = IF toReport'[v] = {} THEN "done" ELSE "finalizing"]
  /\ UNCHANGED <<results, reported>>

(* _measure_view returned: `measure` records the measurement and collects  *)
(* the models that only waited for it, all under one lock and without an   *)
(* await in between.                                                       *)
Record(v, status, flag) ==
  /\ measured' = [measured EXCEPT ![v] = status]
  /\ manual' = [manual EXCEPT ![v] = flag]
  /\ pending' = [m \in Models |-> pending[m] \ {v}]
  /\ toReport' = [toReport EXCEPT ![v] = {m \in Models : pending[m] = {v}}]
  /\ place' = [place EXCEPT ![v] = IF toReport'[v] = {} THEN "done" ELSE "finalizing"]
  /\ UNCHANGED <<results, reported>>

(* The task ends; the gather future takes the first exception.             *)
Settle(v, end, e) ==
  /\ place' = [place EXCEPT ![v] = end]
  /\ gathered' = IF gathered = "none" THEN e ELSE gathered

At(v, p) == place[v] = p /\ v \notin cancelling

-----------------------------------------------------------------------------
(* The measurement of one view.                                            *)

(* execute_with_concurrency_limit admits views in the order of its items.  *)
Admit(v) ==
  /\ At(v, "queued")
  /\ Cardinality(Admitted) < MaxConcurrency
  /\ \A w \in Views : w < v => place[w] # "queued"
  /\ place' = [place EXCEPT ![v] = "checking"]
  /\ UNCHANGED <<tenantVars, cleanup, previously, measured, manual, modelVars,
                 commandVars>>

(* is_persisted read the monitor; a silent monitor is asked again.         *)
CheckAnswered(v) ==
  /\ At(v, "checking")
  /\ previously' = [previously EXCEPT ![v] = Persisted(v)]
  /\ place' = [place EXCEPT ![v] = "starting"]
  /\ UNCHANGED <<tenantVars, cleanup, measured, manual, modelVars, commandVars>>

PersistAccepted(v) ==
  /\ At(v, "starting")
  /\ persistRun' = [persistRun EXCEPT ![v] = "running"]
  /\ place' = [place EXCEPT ![v] = "polling"]
  /\ UNCHANGED <<owner, removalRun, disturbed, cleanup, previously,
                 measured, manual, modelVars, commandVars>>

PersistRefused(v) ==
  /\ At(v, "starting")
  /\ Record(v, "persist_failed", ~previously[v])
  /\ UNCHANGED <<tenantVars, cleanup, previously, commandVars>>

(* Mutant: a view that was persisted before is cleaned up, too. *)
PollAnsweredAlwaysCleans(v) ==
  /\ At(v, "polling")
  /\ \/ /\ persistRun[v] = "failed"
        /\ Record(v, "persist_failed", ~previously[v])
        /\ UNCHANGED cleanup
     \/ /\ persistRun[v] = "completed"
        /\ place' = [place EXCEPT ![v] = "shielding"]
        /\ cleanup' = [cleanup EXCEPT ![v] = "reading"]
        /\ UNCHANGED <<measured, manual, modelVars>>
  /\ UNCHANGED <<tenantVars, previously, commandVars>>

(* await_task_log saw the run end.  Only a view that was not persisted     *)
(* before is cleaned up again, in a task of its own behind a shield.       *)
PollAnswered(v) ==
  /\ At(v, "polling")
  /\ \/ /\ persistRun[v] = "failed"
        /\ Record(v, "persist_failed", ~previously[v])
        /\ UNCHANGED cleanup
     \/ /\ persistRun[v] = "completed" /\ previously[v]
        /\ Record(v, "already_persisted", FALSE)
        /\ UNCHANGED cleanup
     \/ /\ persistRun[v] = "completed" /\ ~previously[v]
        /\ place' = [place EXCEPT ![v] = "shielding"]
        /\ cleanup' = [cleanup EXCEPT ![v] = "reading"]
        /\ UNCHANGED <<measured, manual, modelVars>>
  /\ UNCHANGED <<tenantVars, previously, commandVars>>

(* Mutants: a persistence that timed out is not flagged; polling has no    *)
(* timeout.                                                                *)
PollTimesOutUnflagged(v) ==
  /\ At(v, "polling")
  /\ Record(v, "persist_timed_out", FALSE)
  /\ UNCHANGED <<tenantVars, cleanup, previously, commandVars>>

PollForever(v) == FALSE

PollTimesOut(v) ==
  /\ At(v, "polling")
  /\ Record(v, "persist_timed_out", TRUE)
  /\ UNCHANGED <<tenantVars, cleanup, previously, commandVars>>

(* A request fails, the monitor stays silent, or an answer cannot be read: *)
(* the exception leaves the task.  A start request may have arrived.       *)
MeasurementRaises(v) ==
  /\ v \notin cancelling
  /\ place[v] \in {"checking", "starting", "polling"}
  /\ persistRun' \in MaybeStarted(persistRun, v, place[v] = "starting")
  /\ Settle(v, "failed", "error")
  /\ UNCHANGED <<owner, removalRun, disturbed, cleanup, previously,
                 measured, manual, modelVars, command, cancelling, stopping,
                 cancels>>

(* The shield returned what the cleanup returned or raised.                *)
CleanupAnswered(v) ==
  /\ At(v, "shielding") /\ cleanup[v] \in CleanupEnd
  /\ CASE cleanup[v] = "removed" -> Record(v, "completed", FALSE)
       [] cleanup[v] = "timed_out" -> Record(v, "cleanup_timed_out", TRUE)
       [] OTHER -> Record(v, "cleanup_failed", TRUE)
  /\ UNCHANGED <<tenantVars, cleanup, previously, commandVars>>

(* `finalize` projects and reports one model after the other, in the order *)
(* of the request, and awaits the caller's callbacks for each.             *)
Report(v) ==
  /\ At(v, "finalizing")
  /\ \E m \in toReport[v] :
       /\ \A n \in toReport[v] : m <= n
       /\ Finalize(m)
       /\ toReport' = [toReport EXCEPT ![v] = @ \ {m}]
  /\ place' = [place EXCEPT ![v] = "delivering"]
  /\ UNCHANGED <<tenantVars, cleanup, previously, measured, manual, pending,
                 commandVars>>

Delivered(v) ==
  /\ At(v, "delivering")
  /\ place' = [place EXCEPT ![v] = IF toReport[v] = {} THEN "done" ELSE "finalizing"]
  /\ UNCHANGED <<tenantVars, cleanup, previously, measured, manual, modelVars,
                 commandVars>>

DeliveryRaises(v) ==
  /\ At(v, "delivering")
  /\ Settle(v, "failed", "error")
  /\ UNCHANGED <<tenantVars, cleanup, previously, measured, manual, modelVars,
                 command, cancelling, stopping, cancels>>

-----------------------------------------------------------------------------
(* The cleanup task: run_persistence_removal.                              *)

CleanupAt(v, c) == cleanup[v] = c /\ v \notin stopping

CleanupMoves(v, c) ==
  /\ cleanup' = [cleanup EXCEPT ![v] = c]
  /\ UNCHANGED <<owner, persistRun, disturbed, place, previously, measured,
                 manual, modelVars, command, gathered, cancelling, cancels>>

(* The monitor says nothing, "not persisted" or "persisted".               *)
CleanupReads(v) ==
  /\ CleanupAt(v, "reading")
  /\ \/ CleanupMoves(v, "refused")
     \/ ~Persisted(v) /\ CleanupMoves(v, "removed")
     \/ Persisted(v) /\ CleanupMoves(v, "posting")
  /\ UNCHANGED <<removalRun, stopping>>

(* Mutant: a removal that was started counts as done. *)
CleanupStartsUnwatched(v) ==
  /\ CleanupAt(v, "posting")
  /\ \/ CleanupMoves(v, "refused") /\ UNCHANGED removalRun
     \/ /\ CleanupMoves(v, "removed")
        /\ removalRun' = [removalRun EXCEPT ![v] = "running"]
  /\ UNCHANGED stopping

CleanupStarts(v) ==
  /\ CleanupAt(v, "posting")
  /\ \/ CleanupMoves(v, "refused") /\ UNCHANGED removalRun
     \/ /\ CleanupMoves(v, "removing")
        /\ removalRun' = [removalRun EXCEPT ![v] = "running"]
  /\ UNCHANGED stopping

CleanupPolls(v) ==
  /\ CleanupAt(v, "removing")
  /\ \/ removalRun[v] = "completed" /\ CleanupMoves(v, "removed")
     \/ removalRun[v] = "failed" /\ CleanupMoves(v, "refused")
     \/ CleanupMoves(v, "timed_out")
  /\ UNCHANGED <<removalRun, stopping>>

(* A request fails; the start request may have arrived.                    *)
CleanupRaises(v) ==
  /\ cleanup[v] \in CleanupActive /\ v \notin stopping
  /\ CleanupMoves(v, "errored")
  /\ removalRun' \in MaybeStarted(removalRun, v, cleanup[v] = "posting")
  /\ UNCHANGED stopping

(* A cancellation that got through the shield.  While polling it comes     *)
(* back as CommandCancelledError, which cleanup() turns into a result.     *)
CleanupCancelled(v) ==
  /\ v \in stopping
  /\ stopping' = stopping \ {v}
  /\ CleanupMoves(v, IF cleanup[v] = "removing" THEN "interrupted" ELSE "aborted")
  /\ removalRun' \in MaybeStarted(removalRun, v, cleanup[v] = "posting")

CleanupStep(v) ==
  \/ CleanupReads(v) \/ CleanupStarts(v) \/ CleanupPolls(v)
  \/ CleanupRaises(v) \/ CleanupCancelled(v)

-----------------------------------------------------------------------------
(* Cancellation.                                                           *)

(* Mutant: the cleanup is awaited without a shield. *)
CancelMeasurementsUnshielded(S) ==
  /\ cancelling' = cancelling \cup {v \in S : place[v] # "awaiting"}
  /\ stopping' = stopping \cup
       {v \in S : place[v] \in {"shielding", "awaiting"} /\ cleanup[v] \in CleanupActive}

(* task.cancel() on each of some measurements: one that already waits for  *)
(* its cleanup without the shield passes it on to the cleanup.             *)
CancelMeasurements(S) ==
  /\ cancelling' = cancelling \cup {v \in S : place[v] # "awaiting"}
  /\ stopping' = stopping \cup
       {v \in S : place[v] = "awaiting" /\ cleanup[v] \in CleanupActive}

(* It is raised at the await where the measurement is suspended.  Behind   *)
(* the shield it only makes the measurement await the cleanup directly.    *)
CancelledShield(v) ==
  /\ v \in cancelling /\ place[v] = "shielding"
  /\ cancelling' = cancelling \ {v}
  /\ place' = [place EXCEPT ![v] = "awaiting"]
  /\ UNCHANGED <<tenantVars, cleanup, previously, measured, manual, modelVars,
                 command, gathered, stopping, cancels>>

CancelledElsewhere(v) ==
  /\ v \in cancelling /\ place[v] # "shielding"
  /\ cancelling' = cancelling \ {v}
  /\ persistRun' \in MaybeStarted(persistRun, v, place[v] = "starting")
  /\ Settle(v, "cancelled", "cancelled")
  /\ UNCHANGED <<owner, removalRun, disturbed, cleanup, previously,
                 measured, manual, modelVars, command, stopping, cancels>>

(* The cleanup ended: what it returned is dropped, the cancellation raised.*)
CleanupAwaited(v) ==
  /\ place[v] = "awaiting" /\ cleanup[v] \in CleanupEnd
  /\ Settle(v, "cancelled", "cancelled")
  /\ UNCHANGED <<tenantVars, cleanup, previously, measured, manual, modelVars,
                 command, cancelling, stopping, cancels>>

MeasurementStep(v) ==
  \/ Admit(v) \/ CheckAnswered(v) \/ PersistAccepted(v) \/ PersistRefused(v)
  \/ PollAnswered(v) \/ PollTimesOut(v) \/ MeasurementRaises(v)
  \/ CleanupAnswered(v) \/ Report(v) \/ Delivered(v) \/ DeliveryRaises(v)
  \/ CancelledShield(v) \/ CancelledElsewhere(v) \/ CleanupAwaited(v)

-----------------------------------------------------------------------------
(* The command.                                                            *)

(* Models without a resolved view are final before anything is measured.   *)
ReportEmpty ==
  /\ command = "preparing"
  /\ \E m \in Models :
       /\ DependsOn[m] = {} /\ results[m] = "none"
       /\ \A n \in Models : n < m /\ DependsOn[n] = {} => results[n] # "none"
       /\ Finalize(m)
  /\ UNCHANGED <<tenantVars, viewVars, pending, toReport, commandVars>>

(* A callback raises, or the caller cancels while one is going. *)
PrepareRaises ==
  /\ command = "preparing" /\ reported # <<>>
  /\ command' = "raised"
  /\ UNCHANGED <<tenantVars, viewVars, modelVars, gathered, cancelling,
                 stopping, cancels>>

CreateTasks ==
  /\ command = "preparing"
  /\ \A m \in Models : DependsOn[m] = {} => results[m] # "none"
  /\ command' = "gathering"
  /\ place' = [v \in Views |-> "queued"]
  /\ UNCHANGED <<tenantVars, cleanup, previously, measured, manual, modelVars,
                 gathered, cancelling, stopping, cancels>>

GatherReturns ==
  /\ command = "gathering" /\ gathered = "none" /\ Unfinished = {}
  /\ command' = "returned"
  /\ UNCHANGED <<tenantVars, viewVars, modelVars, gathered, cancelling,
                 stopping, cancels>>

(* The except block of _gather cancels what is left, once more if the      *)
(* caller's cancellation already reached it, and waits for it.             *)
GatherRaises ==
  /\ command = "gathering" /\ gathered # "none"
  /\ command' = "draining"
  /\ CancelMeasurements(Unfinished)
  /\ UNCHANGED <<tenantVars, viewVars, modelVars, gathered, cancels>>

Drained ==
  /\ command = "draining" /\ Unfinished = {}
  /\ command' = "raised"
  /\ UNCHANGED <<tenantVars, viewVars, modelVars, gathered, cancelling,
                 stopping, cancels>>

(* The caller cancels the command: the gather passes it on to every        *)
(* measurement still going.  A gather that has ended already cannot, and   *)
(* the command is interrupted itself.                                      *)
Cancel ==
  /\ cancels < MaxCancels /\ cancels' = cancels + 1
  /\ \/ command \in {"gathering", "draining"} /\ Unfinished # {}
        /\ UNCHANGED command
     \/ command = "gathering" /\ (gathered # "none" \/ Unfinished = {})
        /\ command' = "draining"
  /\ CancelMeasurements(Unfinished)
  /\ UNCHANGED <<tenantVars, viewVars, modelVars, gathered>>

CommandStep ==
  ReportEmpty \/ PrepareRaises \/ CreateTasks \/ GatherReturns \/ GatherRaises \/ Drained

Terminated == command \in Ended /\ UNCHANGED vars

Next ==
  \/ CommandStep
  \/ Cancel
  \/ \E v \in Views : MeasurementStep(v) \/ CleanupStep(v) \/ TenantStep(v)
  \/ Terminated

Spec == Init /\ [][Next]_vars

MeasurementResumed(v) ==
  \/ Admit(v) \/ CheckAnswered(v) \/ PersistAccepted(v) \/ PersistRefused(v)
  \/ PollAnswered(v) \/ PollTimesOut(v) \/ CleanupAnswered(v) \/ Report(v)
  \/ Delivered(v) \/ CancelledShield(v) \/ CancelledElsewhere(v) \/ CleanupAwaited(v)

CleanupResumed(v) ==
  CleanupReads(v) \/ CleanupStarts(v) \/ CleanupPolls(v) \/ CleanupCancelled(v)

(* The event loop resumes what can go on, requests are answered, and       *)
(* polling ends at the latest with its timeout; nothing need ever fail.    *)
(* Nothing is assumed of the runs on the tenant.                           *)
FairSpec ==
  /\ Spec
  /\ WF_vars(CommandStep)
  /\ \A v \in Views : WF_vars(MeasurementResumed(v)) /\ WF_vars(CleanupResumed(v))

-----------------------------------------------------------------------------
(* Every variable keeps its type. *)
TypeOK ==
  /\ owner \in [Views -> {"nobody", "other", "command"}]
  /\ persistRun \in [Views -> RunState]
  /\ removalRun \in [Views -> RunState]
  /\ disturbed \subseteq Views
  /\ place \in [Views -> Place]
  /\ cleanup \in [Views -> CleanupActive \cup CleanupEnd \cup {"none"}]
  /\ previously \in [Views -> BOOLEAN]
  /\ measured \in [Views -> Status \cup {"none"}]
  /\ manual \in [Views -> BOOLEAN]
  /\ pending \in [Models -> SUBSET Views]
  /\ toReport \in [Views -> SUBSET Models]
  /\ results \in [Models -> {"none", "completed", "failed", "timed_out"}]
  /\ reported \in Seq(Models)
  /\ command \in {"preparing", "gathering", "draining"} \cup Ended
  /\ gathered \in Raised \cup {"none"}
  /\ cancelling \subseteq Views
  /\ stopping \subseteq Views
  /\ cancels \in 0..MaxCancels

(* The view holds data only because it was measured, or is about to.       *)
Leftover(v) ==
  owner[v] = "command" \/ (owner[v] = "nobody" /\ persistRun[v] = "running")

(* The view held others' data when the monitor was read, and since then    *)
(* they made or removed some.                                              *)
Misread(v) == v \in disturbed /\ previously[v]

(* Whatever timed out, failed or was refused, and whatever others did to   *)
(* the view meanwhile: a measured view that is left persisted by its       *)
(* measurement asks for manual intervention.  The one exception is a view  *)
(* whose earlier data others removed after the monitor had been read.      *)
LeftoverFlagged ==
  \A v \in Views : measured[v] # "none" /\ Leftover(v) => manual[v] \/ Misread(v)

(* A view reported as cleaned up holds no data of the measurement and no   *)
(* run is left that could change that.                                     *)
RemovedIsGone ==
  \A v \in Views : measured[v] = "completed" =>
    ~Leftover(v) /\ persistRun[v] # "running" /\ removalRun[v] # "running"

(* A model reported as completed left no view of its own behind, also when *)
(* the view was measured for another model; with the same exception.       *)
CompletedModelIsClean ==
  \A m \in Models : results[m] = "completed" =>
    m \notin Incomplete /\ \A v \in DependsOn[m] : Leftover(v) => Misread(v)

(* A model is reported once, not before its last view is measured; it is   *)
(* not forgotten after that while measurements are going on; and all are   *)
(* reported when the command returns.                                      *)
ReportedWhenFinal ==
  /\ \A k, l \in 1..Len(reported) : reported[k] = reported[l] => k = l
  /\ \A m \in Models :
       /\ m \in Reported => \A v \in DependsOn[m] : measured[v] # "none"
       /\ command \in {"gathering", "draining"} /\ m \notin Reported
            /\ (\A v \in DependsOn[m] : measured[v] # "none")
            => \E v \in DependsOn[m] : m \in toReport[v]
  /\ command = "returned" => Reported = Models

(* A failure of another measurement never disturbs a cleanup: as long as   *)
(* the caller does not cancel, the shield holds.                           *)
CleanupUndisturbed ==
  cancels = 0 => \A v \in Views : cleanup[v] \notin {"aborted", "interrupted"}

(* No cleanup task outlives the command. *)
NoOrphanCleanup ==
  command \in Ended => \A v \in Views : cleanup[v] \notin CleanupActive

(* The command removes data of others only when they made it after the     *)
(* monitor had been read and found the view empty, and before the end of   *)
(* the removal: what was there when the monitor was read is kept.          *)
ForeignDataKept ==
  [][\A v \in Views :
       owner[v] = "other" /\ owner'[v] # "other" /\ removalRun'[v] # removalRun[v] =>
         v \in disturbed /\ ~previously[v]]_vars

(* A caller that cancels gets control back, and so does everybody else.    *)
Terminates == <>(command \in Ended)
=============================================================================
