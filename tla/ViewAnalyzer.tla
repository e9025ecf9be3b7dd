----------------------------- MODULE ViewAnalyzer -----------------------------
(***************************************************************************)
(* Analyzing one view (datasphere_core/commands/views.py,                  *)
(* `_run_view_analyzer`): a call remembers the runs in the task log of the *)
(* view, starts the analyzer, and then finds its run in a log that all     *)
(* runs on the view share, whoever started them.                           *)
(*                                                                         *)
(* The answer to the start need not name the run, the log need not show it *)
(* at once, and the analyzer may have been running already.                *)
(***************************************************************************)
EXTENDS Integers, FiniteSets

CONSTANTS
  Callers,   (* calls that analyze the view                                 *)
  Others,    (* everybody else who starts runs on it                        *)
  MaxRuns    (* bound: runs on the view                                     *)

ASSUME CallersAssumption == Others \notin Callers
ASSUME RunsAssumption == MaxRuns \in Nat

NoLog == 0
Runs == 1..MaxRuns

VARIABLES
  (* the tenant *)
  run,      (* state of each run, numbered in the order they are started    *)
  kind,     (* activity of each run: "analysis" or another one              *)
  by,       (* who started it                                               *)
  shown,    (* runs the task log of the view shows                          *)
  (* the calls *)
  place,    (* the request each call is suspended at                        *)
  known,    (* known_log_ids                                                *)
  over,     (* runs that had ended when it read them (history)              *)
  logId,    (* log_id                                                       *)
  already,  (* already_running                                              *)
  result    (* how the call ended                                           *)

tenantVars == <<run, kind, by, shown>>
callVars == <<place, known, over, logId, already, result>>
vars == <<tenantVars, callVars>>

RunState == {"none", "running", "completed", "failed"}
Place == {"reading", "starting", "polling", "fetching", "ended"}
Result ==
  {"none", "completed", "failed", "timed_out", "error", "cancelled",
   "command_cancelled"}

Over == {r \in Runs : run[r] \in {"completed", "failed"}}
Analyses == {r \in Runs : run[r] = "running" /\ kind[r] = "analysis"}

-----------------------------------------------------------------------------
Init ==
  /\ run = [r \in Runs |-> "none"]
  /\ kind = [r \in Runs |-> "other"]
  /\ by = [r \in Runs |-> Others]
  /\ shown = {}
  /\ place = [c \in Callers |-> "reading"]
  /\ known = [c \in Callers |-> {}]
  /\ over = [c \in Callers |-> {}]
  /\ logId = [c \in Callers |-> NoLog]
  /\ already = [c \in Callers |-> FALSE]
  /\ result = [c \in Callers |-> "none"]

-----------------------------------------------------------------------------
(* The tenant (external).  It runs one analysis of a view at a time.  A    *)
(* run shows up in the log sooner or later, at the latest when it ends.    *)

Starts(r, k, who) ==
  /\ run[r] = "none" /\ \A q \in Runs : q < r => run[q] # "none"
  /\ k = "analysis" => Analyses = {}
  /\ run' = [run EXCEPT ![r] = "running"]
  /\ kind' = [kind EXCEPT ![r] = k]
  /\ by' = [by EXCEPT ![r] = who]
  /\ UNCHANGED shown

StartedByOthers(r, k) ==
  /\ Starts(r, k, Others)
  /\ UNCHANGED callVars

Appears(r) ==
  /\ run[r] = "running" /\ r \notin shown
  /\ shown' = shown \cup {r}
  /\ UNCHANGED <<run, kind, by, callVars>>

Ends(r, state) ==
  /\ run[r] = "running"
  /\ run' = [run EXCEPT ![r] = state]
  /\ shown' = shown \cup {r}
  /\ UNCHANGED <<kind, by, callVars>>

TenantStep ==
  \E r \in Runs :
    \/ \E k \in {"analysis", "other"} : StartedByOthers(r, k)
    \/ Appears(r)
    \/ \E state \in {"completed", "failed"} : Ends(r, state)

-----------------------------------------------------------------------------
(* A call.                                                                 *)

Go(c, p) == place' = [place EXCEPT ![c] = p]

Ended(c, r) ==
  /\ Go(c, "ended")
  /\ result' = [result EXCEPT ![c] = r]

(* Mutant: the runs known before are not remembered. *)
ReadLogsOnly(c) ==
  /\ place[c] = "reading"
  /\ over' = [over EXCEPT ![c] = Over]
  /\ Go(c, "starting")
  /\ UNCHANGED <<tenantVars, known, logId, already, result>>

(* _get_task_logs, before the start. *)
ReadLogs(c) ==
  /\ place[c] = "reading"
  /\ known' = [known EXCEPT ![c] = shown]
  /\ over' = [over EXCEPT ![c] = Over]
  /\ Go(c, "starting")
  /\ UNCHANGED <<tenantVars, logId, already, result>>

(* _start_view_analyzer: neither started nor running already. *)
StartRefused(c) ==
  /\ place[c] = "starting"
  /\ Ended(c, "failed")
  /\ UNCHANGED <<tenantVars, known, over, logId, already>>

(* Mutant: the log is read after the start. *)
FollowsKnowing(c, r, before) ==
  /\ logId' \in {logId, [logId EXCEPT ![c] = r]}
  /\ known' = [known EXCEPT ![c] = @ \cup {r}]
  /\ already' = [already EXCEPT ![c] = before]
  /\ Go(c, "polling")
  /\ UNCHANGED <<over, result>>

(* 202, or 409 with an analysis that is going already.  The answer may     *)
(* carry the log ID of the run.                                            *)
Follows(c, r, before) ==
  /\ logId' \in {logId, [logId EXCEPT ![c] = r]}
  /\ already' = [already EXCEPT ![c] = before]
  /\ Go(c, "polling")
  /\ UNCHANGED <<known, over, result>>

StartAccepted(c) ==
  /\ place[c] = "starting"
  /\ \E r \in Runs : Starts(r, "analysis", c) /\ Follows(c, r, FALSE)

AlreadyRunning(c) ==
  /\ place[c] = "starting"
  /\ \E r \in Analyses : Follows(c, r, TRUE)
  /\ UNCHANGED tenantVars

(* Mutant: a log ID is not compared with the one that is known already.    *)
MatchingUnknown(c) == shown \ known[c]

(* _match_analyzer_log: the first entry that fits.  The order of the log   *)
(* is the tenant's, so any entry that fits may be the first.               *)
Matching(c) ==
  LET fitting == IF logId[c] # NoLog THEN shown \cap {logId[c]} ELSE shown \ known[c]
      active == {r \in shown : run[r] = "running"}
  IN  IF fitting = {} /\ already[c] /\ logId[c] = NoLog THEN active ELSE fitting

(* Mutant: any state but "running" counts as completed. *)
PollUnlessRunning(c) ==
  /\ place[c] = "polling"
  /\ \E r \in Matching(c) :
       /\ logId' = [logId EXCEPT ![c] = r]
       /\ IF run[r] = "running" THEN UNCHANGED <<place, result>>
                                ELSE Go(c, "fetching") /\ UNCHANGED result
  /\ UNCHANGED <<tenantVars, known, over, already>>

(* One poll that found a matching entry; it is the only one from now on.   *)
Poll(c) ==
  /\ place[c] = "polling"
  /\ \E r \in Matching(c) :
       /\ logId' = [logId EXCEPT ![c] = r]
       /\ \/ run[r] = "running" /\ UNCHANGED <<place, result>>
          \/ run[r] = "completed" /\ Go(c, "fetching") /\ UNCHANGED result
          \/ run[r] = "failed" /\ Ended(c, "failed")
  /\ UNCHANGED <<tenantVars, known, over, already>>

PollTimesOut(c) ==
  /\ place[c] = "polling"
  /\ Ended(c, "timed_out")
  /\ UNCHANGED <<tenantVars, known, over, logId, already>>

(* _get_view_analyzer_result: without entities the analysis has failed.    *)
Fetched(c) ==
  /\ place[c] = "fetching"
  /\ Ended(c, "completed") \/ Ended(c, "failed")
  /\ UNCHANGED <<tenantVars, known, over, logId, already>>

(* Leaving at any await; a start that was sent may have been accepted.     *)
MaybeStarted(c) ==
  \/ UNCHANGED tenantVars
  \/ place[c] = "starting" /\ \E r \in Runs : Starts(r, "analysis", c)

Raises(c) ==
  /\ place[c] # "ended"
  /\ Ended(c, "error")
  /\ MaybeStarted(c)
  /\ UNCHANGED <<known, over, logId, already>>

Cancelled(c) ==
  /\ place[c] # "ended"
  /\ Ended(c, IF place[c] = "polling" THEN "command_cancelled" ELSE "cancelled")
  /\ MaybeStarted(c)
  /\ UNCHANGED <<known, over, logId, already>>

Answered(c) ==
  \/ ReadLogs(c) \/ StartRefused(c) \/ StartAccepted(c) \/ AlreadyRunning(c)
  \/ Fetched(c)

Finished == (\A c \in Callers : place[c] = "ended") /\ UNCHANGED vars

Next ==
  \/ TenantStep
  \/ \E c \in Callers :
       Answered(c) \/ Poll(c) \/ PollTimesOut(c) \/ Raises(c) \/ Cancelled(c)
  \/ Finished

Spec == Init /\ [][Next]_vars

-----------------------------------------------------------------------------
(* Every variable keeps its type. *)
TypeOK ==
  /\ run \in [Runs -> RunState]
  /\ kind \in [Runs -> {"analysis", "other"}]
  /\ by \in [Runs -> Callers \cup {Others}]
  /\ shown \subseteq Runs
  /\ place \in [Callers -> Place]
  /\ known \in [Callers -> SUBSET Runs]
  /\ over \in [Callers -> SUBSET Runs]
  /\ logId \in [Callers -> Runs \cup {NoLog}]
  /\ already \in [Callers -> BOOLEAN]
  /\ result \in [Callers -> Result]

(* A result is never that of an earlier analysis: the run it names had not *)
(* ended when the call began, although others come and go in the same log. *)
ResultIsRecent ==
  \A c \in Callers : logId[c] # NoLog => logId[c] \notin over[c]

(* A result tells how the run it names ended.                              *)
ResultIsTruthful ==
  \A c \in Callers :
    result[c] = "completed" => logId[c] # NoLog /\ run[logId[c]] = "completed"

(* A call follows one run: a newer one does not divert it.                 *)
FollowsOneRun ==
  [][\A c \in Callers : logId[c] # NoLog => logId'[c] = logId[c]]_vars

(* A call that started a run finds a run at the latest when its own ended: *)
(* it never polls in vain until the timeout.                               *)
FindsWhatItStarted(c) ==
  place[c] = "polling" /\ Analyses = {} => Matching(c) # {}
OwnRunIsFound == \A c \in Callers : ~already[c] => FindsWhatItStarted(c)
=============================================================================
