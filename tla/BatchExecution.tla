--------------------------- MODULE BatchExecution ---------------------------
(***************************************************************************)
(* One batch command of datasphere_core/runtime/execution.py: the          *)
(* lifecycle reports of `_execute`, the item tasks and the semaphore of    *)
(* `run_batch`, the counters and the lock of `BatchReporter`, and the      *)
(* cancellation protocol of `_gather`.                                     *)
(*                                                                         *)
(* The command and its items are coroutines of one asyncio event loop: a   *)
(* step runs from one await to the next, so a step here is what the code   *)
(* does between two suspension points.  What an item's operation does is   *)
(* left open: it returns a result, raises, or is cancelled.                *)
(***************************************************************************)
EXTENDS Integers, Sequences, FiniteSets

CONSTANTS
  N,               (* number of items in the batch request                  *)
  MaxConcurrency,  (* max_concurrency of the request                        *)
  MaxCancels       (* bound: how often the caller cancels the command       *)

ASSUME SizeAssumption == N \in Nat
ASSUME ConcurrencyAssumption == MaxConcurrency \in Nat \ {0}
ASSUME CancelAssumption == MaxCancels \in Nat

Items == 1..N

Outcome == {"succeeded", "skipped", "failed", "timed_out"}

(* What a coroutine can raise.  "command_cancelled" is the                 *)
(* CommandCancelledError that carries the log ID of a started run.         *)
Failure == {"error", "command_timeout"}
Cancellation == {"cancelled", "command_cancelled"}
Raised == Failure \cup Cancellation

TerminalPhase == {"completed", "failed", "timed_out", "cancelled"}

VARIABLES
  command,     (* where the command's own coroutine is suspended            *)
  task,        (* where each item's task is suspended                       *)
  outcome,     (* outcome of each item's result, "none" before it returned  *)
  permits,     (* value of the semaphore                                    *)
  lock,        (* item holding the reporter's lock, 0 when it is free       *)
  counts,      (* the reporter's counters                                   *)
  cancelling,  (* items with a cancellation not delivered yet               *)
  interrupted, (* the command itself has a cancellation not delivered yet   *)
  gathered,    (* exception the gather future ended with, or "none"         *)
  error,       (* exception the command is about to raise, or "none"        *)
  lifecycle,   (* progress updates received, all but 'advanced'             *)
  advanced,    (* 'advanced' updates received                               *)
  delivered,   (* items received by the batch item result callback          *)
  cancels      (* cancellations requested so far                            *)

commandVars == <<command, interrupted, error, lifecycle>>
itemVars    == <<task, outcome, permits, cancelling, gathered>>
reportVars  == <<lock, counts, advanced, delivered>>
vars == <<commandVars, itemVars, reportVars, cancels>>

CommandPlace ==
  {"idle", "starting", "announcing", "gathering", "draining", "closing",
   "returned", "raised"}
Ended == {"returned", "raised"}

TaskPlace ==
  {"absent", "queued", "running", "completing", "reporting", "delivering",
   "done", "failed", "cancelled"}
Settled == {"done", "failed", "cancelled"}

Unfinished == {i \in Items : task[i] \notin Settled \cup {"absent"}}
Running == {i \in Items : task[i] = "running"}

Reported == {advanced[k].item : k \in 1..Len(advanced)}
Handed == {delivered[k] : k \in 1..Len(delivered)}

-----------------------------------------------------------------------------
(* The reporter.                                                           *)

(* BatchSummary.total *)
Total(c) == c["succeeded"] + c["failed"] + c["skipped"] + c["timed_out"]

(* Mutants of Record: the update is built before the counter moves; a      *)
(* skipped item is counted as succeeded.                                   *)
RecordStale(i, o) ==
  /\ lock' = i
  /\ counts' = [counts EXCEPT ![o] = @ + 1]
  /\ advanced' = Append(advanced, [item |-> i, completed |-> Total(counts)])
  /\ UNCHANGED delivered
RecordSkippedAsSucceeded(i, o) ==
  /\ lock' = i
  /\ counts' = [counts EXCEPT ![IF o = "skipped" THEN "succeeded" ELSE o] = @ + 1]
  /\ advanced' = Append(advanced, [item |-> i, completed |-> Total(counts')])
  /\ UNCHANGED delivered

(* `complete`, up to its first await: with the lock held, the outcome is   *)
(* counted and the 'advanced' update is handed to the progress callback.   *)
Record(i, o) ==
  /\ lock' = i
  /\ counts' = [counts EXCEPT ![o] = @ + 1]
  /\ advanced' = Append(advanced, [item |-> i, completed |-> Total(counts')])
  /\ UNCHANGED delivered

(* Mutants: a cancelled operation keeps its permit; no operation gives its *)
(* permit back.                                                            *)
ReleasePermitUnlessCancelled(i) ==
  permits' = IF task[i] = "running" /\ i \notin cancelling THEN permits + 1 ELSE permits
KeepPermit(i) == UNCHANGED permits

(* A lock or a semaphore is left on every way out of its block.            *)
ReleaseLock(i) == lock' = IF lock = i THEN 0 ELSE lock
ReleasePermit(i) ==
  permits' = IF task[i] = "running" THEN permits + 1 ELSE permits

(* The lifecycle updates: only those of the batch carry counters.          *)
Update(phase, counters) == [phase |-> phase, counters |-> counters]

(* _batch_phase *)
BatchPhase(c) ==
  CASE c["timed_out"] > 0 -> "timed_out"
    [] c["timed_out"] = 0 /\ c["failed"] > 0 -> "failed"
    [] OTHER -> "completed"

(* The except clauses of _execute, in their order.                         *)
ErrorPhase(e) ==
  CASE e = "command_timeout" -> "timed_out"
    [] e \in Cancellation -> "cancelled"
    [] OTHER -> "failed"

-----------------------------------------------------------------------------
Init ==
  /\ command = "idle"
  /\ task = [i \in Items |-> "absent"]
  /\ outcome = [i \in Items |-> "none"]
  /\ permits = MaxConcurrency
  /\ lock = 0
  /\ counts = [o \in Outcome |-> 0]
  /\ cancelling = {}
  /\ interrupted = FALSE
  /\ gathered = "none"
  /\ error = "none"
  /\ lifecycle = <<>>
  /\ advanced = <<>>
  /\ delivered = <<>>
  /\ cancels = 0

-----------------------------------------------------------------------------
(* The command's own coroutine.                                            *)

(* _execute reports 'started' and awaits the callback.                     *)
Start ==
  /\ command = "idle"
  /\ command' = "starting"
  /\ lifecycle' = Append(lifecycle, Update("started", FALSE))
  /\ UNCHANGED <<interrupted, error, itemVars, reportVars, cancels>>

(* run_batch announces the batch size with a second 'started'.             *)
Announce ==
  /\ command = "starting" /\ ~interrupted
  /\ command' = "announcing"
  /\ lifecycle' = Append(lifecycle, Update("started", TRUE))
  /\ UNCHANGED <<interrupted, error, itemVars, reportVars, cancels>>

(* run_batch creates one task per item and gathers them.                   *)
CreateTasks ==
  /\ command = "announcing" /\ ~interrupted
  /\ command' = "gathering"
  /\ task' = [i \in Items |-> "queued"]
  /\ UNCHANGED <<interrupted, error, lifecycle, outcome, permits, cancelling,
                 gathered, reportVars, cancels>>

(* All tasks returned: _execute reports the phase of the summary.          *)
GatherReturns ==
  /\ command = "gathering" /\ ~interrupted
  /\ gathered = "none" /\ Unfinished = {}
  /\ command' = "closing"
  /\ lifecycle' = Append(lifecycle, Update(BatchPhase(counts), TRUE))
  /\ UNCHANGED <<interrupted, error, itemVars, reportVars, cancels>>

(* Mutant: the remaining tasks are not cancelled. *)
GatherRaisesOnly ==
  /\ command = "gathering"
  /\ interrupted \/ gathered # "none"
  /\ command' = "draining"
  /\ error' = IF interrupted THEN "cancelled" ELSE gathered
  /\ interrupted' = FALSE
  /\ UNCHANGED <<lifecycle, itemVars, reportVars, cancels>>

(* The except block of _gather: every task still going is cancelled, once  *)
(* more if the cancellation of the command already reached it.             *)
GatherRaises ==
  /\ command = "gathering"
  /\ interrupted \/ gathered # "none"
  /\ command' = "draining"
  /\ error' = IF interrupted THEN "cancelled" ELSE gathered
  /\ interrupted' = FALSE
  /\ cancelling' = cancelling \cup Unfinished
  /\ UNCHANGED <<lifecycle, task, outcome, permits, gathered, reportVars,
                 cancels>>

(* Mutant: the remaining tasks are cancelled, but not awaited. *)
DrainedAtOnce ==
  /\ command = "draining"
  /\ command' = "closing"
  /\ error' \in IF interrupted THEN Cancellation ELSE {error}
  /\ interrupted' = FALSE
  /\ lifecycle' = Append(lifecycle, Update(ErrorPhase(error'), FALSE))
  /\ UNCHANGED <<itemVars, reportVars, cancels>>

(* The gather inside the except block waits for all of them; cancelled     *)
(* itself, it raises as the last of them did.  _execute then reports the   *)
(* phase of the exception.                                                 *)
Drained ==
  /\ command = "draining" /\ Unfinished = {}
  /\ command' = "closing"
  /\ error' \in IF interrupted THEN Cancellation ELSE {error}
  /\ interrupted' = FALSE
  /\ lifecycle' = Append(lifecycle, Update(ErrorPhase(error'), FALSE))
  /\ UNCHANGED <<itemVars, reportVars, cancels>>

(* The callback of the terminal phase returned.                            *)
Finish ==
  /\ command = "closing" /\ ~interrupted
  /\ command' = IF error = "none" THEN "returned" ELSE "raised"
  /\ UNCHANGED <<interrupted, error, lifecycle, itemVars, reportVars, cancels>>

(* The callback of a lifecycle update raises, or a cancellation reaches    *)
(* the command while it awaits it: in the reports of _execute, outside its *)
(* try block, that just propagates, in place of what was being reported;   *)
(* in run_batch, inside the block, it is reported.                         *)
ReportFails ==
  /\ command \in {"starting", "closing"}
  /\ command' = "raised"
  /\ error' = IF interrupted THEN "cancelled" ELSE "error"
  /\ interrupted' = FALSE
  /\ UNCHANGED <<lifecycle, itemVars, reportVars, cancels>>

AnnounceFails ==
  /\ command = "announcing"
  /\ command' = "closing"
  /\ error' = IF interrupted THEN "cancelled" ELSE "error"
  /\ interrupted' = FALSE
  /\ lifecycle' = Append(lifecycle, Update(ErrorPhase(error'), FALSE))
  /\ UNCHANGED <<itemVars, reportVars, cancels>>

-----------------------------------------------------------------------------
(* The caller cancels the command.  A command awaiting a gather that still *)
(* has a task to wait for passes the cancellation on to every such task;   *)
(* the gather of the except block also remembers it.  In any other place   *)
(* the command itself is interrupted.                                      *)
CancelRequest ==
  /\ command \notin Ended \cup {"idle"}
  /\ cancels < MaxCancels
  /\ cancels' = cancels + 1

(* Mutant: running operations are shielded from the cancellation. *)
CancelQueuedTasks ==
  /\ CancelRequest
  /\ command \in {"gathering", "draining"} /\ Unfinished # {}
  /\ cancelling' = cancelling \cup (Unfinished \ Running)
  /\ interrupted' = IF command = "draining" THEN TRUE ELSE interrupted
  /\ UNCHANGED <<command, error, lifecycle, task, outcome, permits, gathered,
                 reportVars>>

CancelTasks ==
  /\ CancelRequest
  /\ command \in {"gathering", "draining"} /\ Unfinished # {}
  /\ cancelling' = cancelling \cup Unfinished
  /\ interrupted' = IF command = "draining" THEN TRUE ELSE interrupted
  /\ UNCHANGED <<command, error, lifecycle, task, outcome, permits, gathered,
                 reportVars>>

CancelCommand ==
  /\ CancelRequest
  /\ \/ command \in {"starting", "announcing", "closing"}
     \/ command = "gathering" /\ (gathered # "none" \/ Unfinished = {})
     \/ command = "draining" /\ Unfinished = {}
  /\ interrupted' = TRUE
  /\ UNCHANGED <<command, error, lifecycle, itemVars, reportVars>>

-----------------------------------------------------------------------------
(* One item's task.                                                        *)

(* The gather future takes the exception of the first task that ends with  *)
(* one.                                                                    *)
Settle(i, place, e) ==
  /\ task' = [task EXCEPT ![i] = place]
  /\ gathered' = IF gathered = "none" THEN e ELSE gathered

(* The semaphore admits waiting tasks in the order they were created.      *)
Admit(i) ==
  /\ task[i] = "queued" /\ i \notin cancelling
  /\ permits > 0
  /\ \A j \in Items : j < i => task[j] # "queued"
  /\ permits' = permits - 1
  /\ task' = [task EXCEPT ![i] = "running"]
  /\ UNCHANGED <<outcome, cancelling, gathered, commandVars, reportVars,
                 cancels>>

(* The operation returned: the permit is given back, and the item is       *)
(* recorded at once unless the lock is taken or others wait for it.        *)
OperationReturns(i, o) ==
  /\ task[i] = "running" /\ i \notin cancelling
  /\ outcome' = [outcome EXCEPT ![i] = o]
  /\ ReleasePermit(i)
  /\ IF lock = 0 /\ \A j \in Items : task[j] = "completing" => j \in cancelling
       THEN /\ Record(i, o)
            /\ task' = [task EXCEPT ![i] = "reporting"]
       ELSE /\ task' = [task EXCEPT ![i] = "completing"]
            /\ UNCHANGED reportVars
  /\ UNCHANGED <<cancelling, gathered, commandVars, cancels>>

OperationRaises(i, e) ==
  /\ task[i] = "running" /\ i \notin cancelling
  /\ ReleasePermit(i)
  /\ Settle(i, "failed", e)
  /\ UNCHANGED <<outcome, cancelling, commandVars, reportVars, cancels>>

(* Mutant: an item does not wait for the lock. *)
SeizeLock(i) ==
  /\ task[i] = "completing" /\ i \notin cancelling
  /\ Record(i, outcome[i])
  /\ task' = [task EXCEPT ![i] = "reporting"]
  /\ UNCHANGED <<outcome, permits, cancelling, gathered, commandVars, cancels>>

AcquireLock(i) ==
  /\ task[i] = "completing" /\ i \notin cancelling
  /\ lock = 0
  /\ Record(i, outcome[i])
  /\ task' = [task EXCEPT ![i] = "reporting"]
  /\ UNCHANGED <<outcome, permits, cancelling, gathered, commandVars, cancels>>

(* The progress callback returned: the result is handed to the batch item  *)
(* result callback.                                                        *)
ProgressReturns(i) ==
  /\ task[i] = "reporting" /\ i \notin cancelling
  /\ task' = [task EXCEPT ![i] = "delivering"]
  /\ delivered' = Append(delivered, i)
  /\ UNCHANGED <<outcome, permits, cancelling, gathered, lock, counts,
                 advanced, commandVars, cancels>>

DeliveryReturns(i) ==
  /\ task[i] = "delivering" /\ i \notin cancelling
  /\ ReleaseLock(i)
  /\ task' = [task EXCEPT ![i] = "done"]
  /\ UNCHANGED <<outcome, permits, cancelling, gathered, counts, advanced,
                 delivered, commandVars, cancels>>

(* Either callback raises, for example because a checkpoint file cannot be *)
(* written.                                                                *)
CallbackRaises(i) ==
  /\ task[i] \in {"reporting", "delivering"} /\ i \notin cancelling
  /\ ReleaseLock(i)
  /\ Settle(i, "failed", "error")
  /\ UNCHANGED <<outcome, permits, cancelling, counts, advanced, delivered,
                 commandVars, cancels>>

(* A cancellation is raised at the await where the task is suspended.  An  *)
(* operation that started a remote run turns it into CommandCancelledError.*)
CancelledAt(i, e) ==
  /\ i \in cancelling
  /\ task[i] # "running" => e = "cancelled"
  /\ cancelling' = cancelling \ {i}
  /\ ReleasePermit(i)
  /\ ReleaseLock(i)
  /\ Settle(i, "cancelled", e)
  /\ UNCHANGED <<outcome, counts, advanced, delivered, commandVars, cancels>>

-----------------------------------------------------------------------------
CommandStep ==
  \/ Start \/ Announce \/ CreateTasks \/ GatherReturns \/ GatherRaises
  \/ Drained \/ Finish \/ ReportFails \/ AnnounceFails

OperationStep(i) ==
  \/ \E o \in Outcome : OperationReturns(i, o)
  \/ \E e \in Failure : OperationRaises(i, e)

ReportStep(i) ==
  \/ AcquireLock(i) \/ ProgressReturns(i) \/ DeliveryReturns(i)
  \/ CallbackRaises(i)

ItemStep(i) ==
  \/ Admit(i) \/ OperationStep(i) \/ ReportStep(i)
  \/ \E e \in Cancellation : CancelledAt(i, e)

(* A command that ended stays as it is. *)
Terminated == command \in Ended /\ UNCHANGED vars

Next ==
  \/ CommandStep
  \/ CancelTasks
  \/ CancelCommand
  \/ \E i \in Items : ItemStep(i)
  \/ Terminated

Spec == Init /\ [][Next]_vars

(* The event loop resumes every coroutine that can go on, and callbacks    *)
(* return.  Nothing is assumed of the operations here.                     *)
Fairness ==
  /\ WF_vars(CommandStep)
  /\ \A i \in Items :
       /\ WF_vars(Admit(i))
       /\ WF_vars(ReportStep(i))
       /\ WF_vars(\E e \in Cancellation : CancelledAt(i, e))

FairSpec == Spec /\ Fairness

-----------------------------------------------------------------------------
(* Every variable keeps its type. *)
TypeOK ==
  /\ command \in CommandPlace
  /\ task \in [Items -> TaskPlace]
  /\ outcome \in [Items -> Outcome \cup {"none"}]
  /\ permits \in Nat
  /\ lock \in Items \cup {0}
  /\ counts \in [Outcome -> Nat]
  /\ cancelling \subseteq Items
  /\ interrupted \in BOOLEAN
  /\ gathered \in Raised \cup {"none"}
  /\ error \in Raised \cup {"none"}
  /\ lifecycle \in Seq([phase : TerminalPhase \cup {"started"},
                        counters : BOOLEAN])
  /\ advanced \in Seq([item : Items, completed : Nat])
  /\ delivered \in Seq(Items)
  /\ cancels \in 0..MaxCancels

(* An item that left its operation with a result has its outcome.          *)
OutcomeKnown ==
  \A i \in Items :
    task[i] \in {"completing", "reporting", "delivering", "done"}
      => outcome[i] \in Outcome

(* run_batch runs at most max_concurrency operations at a time, and every  *)
(* permit not in use is available again: none leaks when an operation      *)
(* raises or is cancelled.                                                 *)
ConcurrencyBound == Cardinality(Running) + permits = MaxConcurrency

(* The reporter's lock serialises the callbacks of different items: an     *)
(* item is in the middle of its reports exactly while it holds the lock.   *)
ReportsSerialised ==
  \A i \in Items : lock = i <=> task[i] \in {"reporting", "delivering"}

(* The k-th 'advanced' update says that k items are complete, and no item  *)
(* advances twice, in whatever order the items finish or are cancelled.    *)
CountersInStep ==
  /\ Total(counts) = Len(advanced)
  /\ \A k \in 1..Len(advanced) : advanced[k].completed = k
  /\ \A k, l \in 1..Len(advanced) :
       advanced[k].item = advanced[l].item => k = l

(* A batch that returns has reported every item, delivered every result,   *)
(* and its summary counts exactly the outcomes of its results.             *)
ReturnIsComplete ==
  command = "returned" =>
    /\ \A i \in Items : task[i] = "done"
    /\ Handed = Items
    /\ \A o \in Outcome : counts[o] = Cardinality({i \in Items : outcome[i] = o})

(* Once the terminal phase is reported no item task is left behind: none   *)
(* is running, holds the lock or can still report.                         *)
NoOrphans == command \in {"closing"} \cup Ended => Unfinished = {}

(* The terminal phase is the last thing the caller hears of a batch.       *)
TerminalIsLast ==
  [][(\E k \in 1..Len(lifecycle) : lifecycle[k].phase \in TerminalPhase)
       => UNCHANGED <<lifecycle, advanced, delivered, counts>>]_vars

(* If an item raises, the remaining items are cancelled: no operation      *)
(* starts after _gather saw the exception.                                 *)
NoWorkAfterFailure ==
  [][command = "draining" => \A i \in Running' : i \in Running]_vars

(* A caller that cancels a running batch gets control back, and so does    *)
(* one whose batch has an item that raised, even if no operation ever      *)
(* returns by itself.                                                      *)
StopEnds == (cancels > 0 \/ gathered # "none") ~> command \in Ended

(* When operations poll under a timeout, so that each of them ends on its  *)
(* own, the batch ends.                                                    *)
OperationsEnd == \A i \in Items : WF_vars(OperationStep(i))
Terminates == OperationsEnd => <>(command \in Ended)

-----------------------------------------------------------------------------
(* The batch seen by its caller, and the contract it implements.           *)
Contract == INSTANCE BatchContract WITH
  Nobody <- 0,
  reported <- Reported,
  handed <- Handed,
  busy <- lock,
  status <- IF command \in Ended THEN command ELSE "open"

(* run_batch under batch_command keeps the caller's contract. *)
KeepsContract == Contract!Spec
=============================================================================
