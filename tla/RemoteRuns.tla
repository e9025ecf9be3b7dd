------------------------------ MODULE RemoteRuns ------------------------------
(***************************************************************************)
(* A batch whose items each start one run on the Datasphere tenant and     *)
(* poll its task log: task_chains.run_batch, views.persist_batch and       *)
(* views.unpersist_batch (datasphere_core/commands).                       *)
(*                                                                         *)
(* It is BatchExecution with the operation filled in: where BatchExecution *)
(* lets an operation return or raise as it likes, the operation here sends *)
(* requests, the tenant answers them or not, and the run on the tenant     *)
(* goes on whatever happens to the operation.                              *)
(***************************************************************************)
EXTENDS BatchExecution

VARIABLES
  kind,    (* "start": run_task_chain or persist_view; "remove":            *)
           (* unpersist_view, which reads the monitor first                 *)
  stage,   (* the request an item's operation waits or last waited for      *)
  run,     (* the item's run on the tenant                                  *)
  status   (* status of the item's result, "none" before it returned        *)

runVars == <<kind, stage, run, status>>
allVars == <<vars, runVars>>

Stage == {"none", "reading", "posting", "polling"}

Run ==
  {"none",       (* no start request was sent                               *)
   "requested",  (* it is on its way, or the tenant is working on it        *)
   "refused",    (* the tenant answered anything but 202                    *)
   "running", "completed", "failed"}

Status == {"completed", "failed", "start_failed", "timed_out", "already_absent"}

(* The log ID is part of the result exactly if the run was answered once.  *)
WithLogId == {"completed", "failed", "timed_out"}

OutcomeOf(s) ==
  CASE s = "completed" -> "succeeded"
    [] s = "already_absent" -> "skipped"
    [] s \in {"failed", "start_failed"} -> "failed"
    [] s = "timed_out" -> "timed_out"

InStage(i, s) == task[i] = "running" /\ stage[i] = s /\ i \notin cancelling

-----------------------------------------------------------------------------
RunsInit ==
  /\ Init
  /\ kind \in {"start", "remove"}
  /\ stage = [i \in Items |-> "none"]
  /\ run = [i \in Items |-> "none"]
  /\ status = [i \in Items |-> "none"]

(* The tenant (external) answers a request when it likes, also when nobody *)
(* waits for the answer any more.                                          *)
TenantStep(i) ==
  /\ \/ run[i] = "requested"
        /\ \E r \in {"running", "refused"} : run' = [run EXCEPT ![i] = r]
     \/ run[i] = "running"
        /\ \E r \in {"completed", "failed"} : run' = [run EXCEPT ![i] = r]
  /\ UNCHANGED <<vars, kind, stage, status>>

(* The operation's first request. *)
AdmitRun(i) ==
  /\ Admit(i)
  /\ stage' = [stage EXCEPT ![i] = IF kind = "start" THEN "posting" ELSE "reading"]
  /\ run' = IF kind = "start" THEN [run EXCEPT ![i] = "requested"] ELSE run
  /\ UNCHANGED <<kind, status>>

(* The operation returns a result with the given status.                   *)
Return(i, s) ==
  /\ OperationReturns(i, OutcomeOf(s))
  /\ status' = [status EXCEPT ![i] = s]
  /\ UNCHANGED <<kind, stage, run>>

(* run_persistence_removal read the monitor: it said nothing of use, or    *)
(* that there is nothing to remove, or the removal is requested.           *)
MonitorAnswers(i) ==
  /\ InStage(i, "reading")
  /\ \/ Return(i, "start_failed")
     \/ Return(i, "already_absent")
     \/ /\ stage' = [stage EXCEPT ![i] = "posting"]
        /\ run' = [run EXCEPT ![i] = "requested"]
        /\ UNCHANGED <<vars, kind, status>>

StartAnswered(i) ==
  /\ InStage(i, "posting") /\ run[i] # "requested"
  /\ IF run[i] = "refused"
       THEN Return(i, "start_failed")
       ELSE /\ stage' = [stage EXCEPT ![i] = "polling"]
            /\ UNCHANGED <<vars, kind, run, status>>

(* Mutant: only a failed run is told from one that is still going. *)
PollAnsweredUnlessFailed(i) ==
  /\ InStage(i, "polling")
  /\ Return(i, IF run[i] = "failed" THEN "failed" ELSE "completed")

(* await_task_log polls until the run has left the running state.          *)
PollAnswered(i) ==
  /\ InStage(i, "polling")
  /\ run[i] \in {"completed", "failed"}
  /\ Return(i, run[i])

(* Mutants: a timeout is taken for a refused start; there is no timeout.   *)
PollTimesOutAsRefused(i) == InStage(i, "polling") /\ Return(i, "start_failed")
PollForever(i) == FALSE

(* The timeout covers the polling only; it may fire when the run has just  *)
(* ended.                                                                  *)
PollTimesOut(i) == InStage(i, "polling") /\ Return(i, "timed_out")

(* A request fails or its answer cannot be read. *)
RequestRaises(i) ==
  /\ InStage(i, stage[i])
  /\ OperationRaises(i, "error")
  /\ UNCHANGED runVars

(* Only a cancelled poll knows the log ID, and raises it along.            *)
RunCancelled(i) ==
  /\ CancelledAt(i, IF task[i] = "running" /\ stage[i] = "polling"
                      THEN "command_cancelled" ELSE "cancelled")
  /\ UNCHANGED runVars

ClientStep(i) ==
  \/ MonitorAnswers(i) \/ StartAnswered(i) \/ PollAnswered(i)
  \/ PollTimesOut(i) \/ RequestRaises(i)

BatchStep ==
  /\ CommandStep \/ CancelTasks \/ CancelCommand \/ \E i \in Items : ReportStep(i)
  /\ UNCHANGED runVars

RunsNext ==
  \/ BatchStep
  \/ \E i \in Items : TenantStep(i) \/ AdmitRun(i) \/ ClientStep(i) \/ RunCancelled(i)
  \/ Terminated /\ UNCHANGED runVars

RunsSpec == RunsInit /\ [][RunsNext]_allVars

(* A start request that is never answered fails with the timeout of the    *)
(* HTTP client.                                                            *)
Resumed(i) ==
  \/ MonitorAnswers(i) \/ StartAnswered(i) \/ PollAnswered(i) \/ PollTimesOut(i)
  \/ stage[i] = "posting" /\ RequestRaises(i)

(* As in BatchExecution; and a request is answered or fails, while polling *)
(* ends at the latest with its timeout.  Nothing is assumed of the tenant. *)
RunsFairSpec ==
  /\ RunsSpec
  /\ WF_allVars(CommandStep /\ UNCHANGED runVars)
  /\ \A i \in Items :
       /\ WF_allVars(AdmitRun(i))
       /\ WF_allVars(ReportStep(i) /\ UNCHANGED runVars)
       /\ WF_allVars(RunCancelled(i))
       /\ WF_allVars(Resumed(i))

-----------------------------------------------------------------------------
(* Every variable keeps its type. *)
RunsTypeOK ==
  /\ TypeOK
  /\ kind \in {"start", "remove"}
  /\ stage \in [Items -> Stage]
  /\ run \in [Items -> Run]
  /\ status \in [Items -> Status \cup {"none"}]

(* A result tells what became of the run on the tenant: it ended as the    *)
(* result says, was never started, or was started and may still go on, in  *)
(* which case the result names it.                                         *)
Truthful(i) ==
  CASE status[i] \in {"completed", "failed"} -> run[i] = status[i]
    [] status[i] \in {"start_failed", "already_absent"} -> run[i] \in {"none", "refused"}
    [] OTHER -> TRUE
ResultsAreTruthful == \A i \in Items : Truthful(i)

(* A caller that gets results can account for every run that may still be  *)
(* going on the tenant: it has the log ID.  Runs beyond max_concurrency    *)
(* are only those of operations that did not see their run end.            *)
Live(i) == run[i] \in {"requested", "running"}
LiveRunsAreKnown ==
  /\ command = "returned" =>
       \A i \in Items : Live(i) => status[i] = "timed_out" /\ status[i] \in WithLogId
  /\ Cardinality({i \in Items :
       Live(i) /\ status[i] # "timed_out" /\ task[i] \notin {"failed", "cancelled"}})
       <= MaxConcurrency

(* No start request is sent after the command has ended or while it drains.*)
NoStartWhileDraining ==
  [][(command \in {"draining", "closing"} \cup Ended) =>
       \A i \in Items : run[i] = "none" => run'[i] = "none"]_allVars

(* The batch ends, even if no run on the tenant ever does.                 *)
RunsTerminate == <>(command \in Ended)
=============================================================================
