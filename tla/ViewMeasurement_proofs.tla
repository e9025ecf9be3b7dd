---------------------- MODULE ViewMeasurement_proofs ----------------------
(***************************************************************************)
(* Proofs about ViewMeasurement, for any number of views and models that   *)
(* share them: what a measurement leaves on the tenant is flagged, what    *)
(* others left there is kept, every model is reported when it is final,    *)
(* and the command neither gets stuck nor goes on for ever.                *)
(***************************************************************************)
EXTENDS ViewMeasurement, FiniteSetTheorems, SequenceTheorems, TLAPS

-----------------------------------------------------------------------------
(* Types, one group of variables at a time.                                *)

TenantOK ==
  /\ owner \in [Views -> {"nobody", "other", "command"}]
  /\ persistRun \in [Views -> RunState]
  /\ removalRun \in [Views -> RunState]
  /\ disturbed \subseteq Views

ViewsOK ==
  /\ place \in [Views -> Place]
  /\ cleanup \in [Views -> CleanupActive \cup CleanupEnd \cup {"none"}]
  /\ previously \in [Views -> BOOLEAN]
  /\ measured \in [Views -> Status \cup {"none"}]
  /\ manual \in [Views -> BOOLEAN]

ModelsOK ==
  /\ pending \in [Models -> SUBSET Views]
  /\ toReport \in [Views -> SUBSET Models]
  /\ results \in [Models -> {"none", "completed", "failed", "timed_out"}]
  /\ reported \in Seq(Models)

CommandOK ==
  /\ command \in {"preparing", "gathering", "draining"} \cup Ended
  /\ gathered \in Raised \cup {"none"}
  /\ cancelling \subseteq Views
  /\ stopping \subseteq Views
  /\ cancels \in 0..MaxCancels

Types == TenantOK /\ ViewsOK /\ ModelsOK /\ CommandOK

-----------------------------------------------------------------------------
(* The view's side: what is known of a view wherever its measurement is.   *)

BeforeResult == Unread \cup {"starting", "polling", "shielding", "awaiting"}

(* Whose data it is: unless others were there meanwhile, others' data was  *)
(* read as such before any run, and what was read is still there.          *)
Data(v) ==
  /\ place[v] \in Unread \cup {"starting"} => persistRun[v] = "none"
  /\ place[v] = "polling" => persistRun[v] # "none"
  /\ persistRun[v] = "none" => owner[v] # "command"
  /\ place[v] \in Unread => ~previously[v]
  /\ previously[v] /\ v \notin disturbed => owner[v] = "other"
  /\ place[v] = "starting" \/ persistRun[v] # "none" =>
       (owner[v] = "other" => previously[v] \/ v \in disturbed)

(* Where the cleanup is, and what it did.                                  *)
Cleaning(v) ==
  /\ place[v] \in BeforeResult \ {"shielding", "awaiting"} => cleanup[v] = "none"
  /\ cleanup[v] # "none" => ~previously[v] /\ persistRun[v] = "completed"
  /\ cleanup[v] \in CleanupActive => place[v] \in {"shielding", "awaiting"}
  /\ v \in stopping => cleanup[v] \in CleanupActive
  /\ removalRun[v] # "none" => cleanup[v] \notin {"none", "reading", "posting"}
  /\ removalRun[v] = "completed" => owner[v] # "command"
  /\ cleanup[v] = "removed" => owner[v] # "command" /\ removalRun[v] # "running"

(* What its result says.                                                   *)
Judged(v) ==
  /\ place[v] \in BeforeResult => measured[v] = "none"
  /\ place[v] \in {"finalizing", "delivering", "done"} => measured[v] # "none"
  /\ measured[v] # "none" /\ ~manual[v] => previously[v] \/ cleanup[v] = "removed"
  /\ measured[v] = "completed" => cleanup[v] = "removed"
  /\ measured[v] = "already_persisted" => previously[v]

ViewInv == \A v \in Views : Data(v) /\ Cleaning(v) /\ Judged(v)

-----------------------------------------------------------------------------
(* The command's side.                                                     *)

Placed ==
  /\ command = "preparing" => \A v \in Views : place[v] = "absent"
  /\ command \in {"gathering", "draining"} => \A v \in Views : place[v] # "absent"
  /\ command \in Ended => Unfinished = {}
  /\ gathered = "none" => \A v \in Views : place[v] \notin {"failed", "cancelled"}

(* While the caller does not cancel, a measurement is cancelled at most    *)
(* once, when the command begins to drain.                                 *)
Undisturbed ==
  cancels = 0 =>
    /\ stopping = {}
    /\ command \in {"preparing", "gathering"} =>
         cancelling = {} /\ \A v \in Views : place[v] # "awaiting"
    /\ \A v \in Views : cleanup[v] \notin {"aborted", "interrupted"}

-----------------------------------------------------------------------------
(* The models' side.                                                       *)

Waiting ==
  /\ \A m \in Models : pending[m] = {v \in DependsOn[m] : measured[v] = "none"}
  /\ \A v \in Views :
       /\ place[v] \in BeforeResult \cup {"done"} => toReport[v] = {}
       /\ \A m \in toReport[v] :
            v \in DependsOn[m] /\ pending[m] = {} /\ results[m] = "none"
       /\ \A w \in Views \ {v} : toReport[v] \cap toReport[w] = {}

Reporting ==
  /\ \A m \in Models : m \in Reported <=> results[m] # "none"
  /\ \A k, l \in 1..Len(reported) : reported[k] = reported[l] => k = l
  /\ \A m \in Models : results[m] # "none" => pending[m] = {} /\ results[m] = ModelStatus(m)
  /\ command # "preparing" /\ command # "raised" =>
       \A m \in Models : results[m] = "none" /\ pending[m] = {} =>
         \E v \in DependsOn[m] : m \in toReport[v]
  /\ command = "returned" => \A v \in Views : place[v] = "done"

-----------------------------------------------------------------------------
(* The steps of a measurement by their shape: it records its result, it    *)
(* ends with an exception, or it goes on to another await.                 *)

Recorded(v, status, flag) ==
  /\ v \notin cancelling /\ place[v] \in {"starting", "polling", "shielding"}
  /\ status \in Status /\ flag \in BOOLEAN
  /\ flag \/ previously[v] \/ cleanup[v] = "removed"
  /\ status = "completed" => cleanup[v] = "removed"
  /\ status = "already_persisted" => previously[v]
  /\ place[v] = "shielding" => cleanup[v] \in CleanupEnd
  /\ Record(v, status, flag)
  /\ UNCHANGED <<tenantVars, cleanup, previously, commandVars>>
RecordStep(v) == \E status \in Status, flag \in BOOLEAN : Recorded(v, status, flag)

ExceptionStep(v) ==
  /\ place[v] \notin {"shielding", "absent"} \cup Settled
  /\ place[v] = "awaiting" => cleanup[v] \in CleanupEnd
  /\ persistRun' \in MaybeStarted(persistRun, v, place[v] = "starting")
  /\ cancelling' = cancelling \ {v}
  /\ \E end \in {"failed", "cancelled"}, e \in Raised : Settle(v, end, e)
  /\ UNCHANGED <<owner, removalRun, disturbed, cleanup, previously, measured, manual,
                 modelVars, command, stopping, cancels>>

(* The run ended well on a view that held no data before. *)
ShieldStep(v) ==
  /\ At(v, "polling") /\ persistRun[v] = "completed" /\ ~previously[v]
  /\ place' = [place EXCEPT ![v] = "shielding"]
  /\ cleanup' = [cleanup EXCEPT ![v] = "reading"]
  /\ UNCHANGED <<tenantVars, previously, measured, manual, modelVars, commandVars>>

MoveStep(v) ==
  \/ Admit(v) \/ CheckAnswered(v) \/ PersistAccepted(v) \/ ShieldStep(v)
  \/ Report(v) \/ Delivered(v) \/ CancelledShield(v)

(* A cancellation is only ever pending for a measurement that is going on  *)
(* and does not wait for its cleanup without the shield.                   *)
Targeted == \A v \in cancelling : place[v] \notin {"absent", "awaiting"} \cup Settled

(* Every step of a measurement has one of these shapes. *)
LEMMA StepShapes ==
  ASSUME Types, Targeted, NEW v \in Views, MeasurementStep(v)
  PROVE  RecordStep(v) \/ ExceptionStep(v) \/ MoveStep(v)
<1> USE DEF Types, ViewsOK, CommandOK
<1>1. CASE PersistRefused(v)
  BY <1>1 DEF PersistRefused, At, RecordStep, Recorded, Status
<1>2. CASE PollAnswered(v)
  <2>1. CASE persistRun[v] = "completed" /\ ~previously[v]
    BY <1>2, <2>1 DEF PollAnswered, MoveStep, ShieldStep, At
  <2>2. CASE persistRun[v] = "completed" /\ previously[v]
    <3>1. Recorded(v, "already_persisted", FALSE)
      BY <1>2, <2>2 DEF PollAnswered, Recorded, Status, At
    <3> QED BY <3>1 DEF RecordStep, Status
  <2>3. CASE persistRun[v] = "failed"
    <3>1. Recorded(v, "persist_failed", ~previously[v])
      BY <1>2, <2>3 DEF PollAnswered, Recorded, Status, At
    <3> QED BY <3>1 DEF RecordStep, Status
  <2> QED BY <1>2, <2>1, <2>2, <2>3 DEF PollAnswered
<1>3. CASE PollTimesOut(v)
  <2>1. Recorded(v, "persist_timed_out", TRUE)
    BY <1>3 DEF PollTimesOut, Recorded, Status, At
  <2> QED BY <2>1 DEF RecordStep, Status
<1>4. CASE CleanupAnswered(v)
  <2>1. CASE cleanup[v] = "removed"
    <3>1. Recorded(v, "completed", FALSE)
      BY <1>4, <2>1 DEF CleanupAnswered, Recorded, Status, At
    <3> QED BY <3>1 DEF RecordStep, Status
  <2>2. CASE cleanup[v] = "timed_out"
    <3>1. Recorded(v, "cleanup_timed_out", TRUE)
      BY <1>4, <2>2 DEF CleanupAnswered, Recorded, Status, At
    <3> QED BY <3>1 DEF RecordStep, Status
  <2>3. CASE cleanup[v] \notin {"removed", "timed_out"}
    <3>1. Recorded(v, "cleanup_failed", TRUE)
      BY <1>4, <2>3 DEF CleanupAnswered, Recorded, Status, At
    <3> QED BY <3>1 DEF RecordStep, Status
  <2> QED BY <2>1, <2>2, <2>3
<1>5. CASE MeasurementRaises(v)
  BY <1>5 DEF MeasurementRaises, ExceptionStep, Settled, Raised
<1>6. CASE DeliveryRaises(v)
  BY <1>6 DEF DeliveryRaises, At, ExceptionStep, Settled, Raised, MaybeStarted,
              tenantVars
<1>7. CASE CancelledElsewhere(v)
  BY <1>7 DEF CancelledElsewhere, ExceptionStep, Settled, Raised, Targeted
<1>8. CASE CleanupAwaited(v)
  BY <1>8 DEF CleanupAwaited, ExceptionStep, Settled, Raised, Targeted,
              MaybeStarted, tenantVars
<1> QED
  BY <1>1, <1>2, <1>3, <1>4, <1>5, <1>6, <1>7, <1>8, MeasurementStep(v)
  DEF MeasurementStep, MoveStep

-----------------------------------------------------------------------------
(* Every variable keeps its type. *)

LEMMA TypesInit == Init => Types
<1> USE DEF Init, Types
<1>1. Init => TenantOK
  BY DEF TenantOK, RunState
<1>2. Init => ViewsOK
  BY DEF ViewsOK, Place
<1>3. Init => ModelsOK
  BY DependsAssumption DEF ModelsOK
<1>4. Init => CommandOK
  BY CancelAssumption DEF CommandOK
<1> QED BY <1>1, <1>2, <1>3, <1>4

LEMMA TypesRecord ==
  ASSUME Types, NEW v \in Views, RecordStep(v)
  PROVE  Types'
<1>1. PICK status \in Status, flag \in BOOLEAN : Recorded(v, status, flag)
  BY DEF RecordStep
<1> USE <1>1 DEF Recorded, Record, Types, tenantVars, commandVars
<1>2. TenantOK'
  BY DEF TenantOK
<1>3. ViewsOK'
  BY DEF ViewsOK, Place
<1>4. ModelsOK'
  BY DEF ModelsOK
<1>5. CommandOK'
  BY DEF CommandOK
<1> QED BY <1>2, <1>3, <1>4, <1>5

LEMMA TypesException ==
  ASSUME Types, NEW v \in Views, ExceptionStep(v)
  PROVE  Types'
<1> USE DEF ExceptionStep, Settle, Types, modelVars
<1>2. TenantOK'
  BY DEF TenantOK, MaybeStarted, RunState
<1>3. ViewsOK'
  BY DEF ViewsOK, Place
<1>4. ModelsOK'
  BY DEF ModelsOK
<1>5. CommandOK'
  BY DEF CommandOK
<1> QED BY <1>2, <1>3, <1>4, <1>5

(* The status of a model is one that its result can have. *)
LEMMA ModelStatusType ==
  ASSUME NEW m \in Models
  PROVE  ModelStatus(m) \in {"completed", "failed", "timed_out"}
BY DEF ModelStatus

LEMMA FinalizeTypes ==
  ASSUME ModelsOK, NEW m \in Models, Finalize(m)
  PROVE  /\ results' \in [Models -> {"none", "completed", "failed", "timed_out"}]
         /\ reported' \in Seq(Models)
<1>1. results' \in [Models -> {"none", "completed", "failed", "timed_out"}]
  BY ModelStatusType DEF ModelsOK, Finalize
<1>2. reported' \in Seq(Models)
  BY AppendProperties DEF ModelsOK, Finalize
<1> QED BY <1>1, <1>2

LEMMA TypesMove ==
  ASSUME Types, NEW v \in Views, MoveStep(v)
  PROVE  Types'
<1> USE DEF Types, MoveStep
<1> USE DEF tenantVars, modelVars, commandVars
<1>2. TenantOK'
  BY DEF TenantOK, Admit, CheckAnswered, PersistAccepted, ShieldStep, Report,
         Delivered, CancelledShield, RunState
<1>3. ViewsOK'
  BY DEF ViewsOK, Admit, CheckAnswered, PersistAccepted, ShieldStep, Report,
         Delivered, CancelledShield, Place, CleanupActive, Persisted, TenantOK
<1>4. ModelsOK'
  <2>1. CASE Report(v)
    BY <2>1, FinalizeTypes DEF Report, ModelsOK
  <2> QED
    BY <2>1 DEF ModelsOK, Admit, CheckAnswered, PersistAccepted, ShieldStep,
                Delivered, CancelledShield
<1>5. CommandOK'
  BY DEF CommandOK, Admit, CheckAnswered, PersistAccepted, ShieldStep, Report,
         Delivered, CancelledShield
<1> QED BY <1>2, <1>3, <1>4, <1>5

LEMMA TypesCleanup ==
  ASSUME Types, NEW v \in Views, CleanupStep(v)
  PROVE  Types'
<1> USE DEF CleanupStep, CleanupMoves, Types, modelVars
<1>2. TenantOK'
  BY DEF TenantOK, CleanupReads, CleanupStarts, CleanupPolls, CleanupRaises,
         CleanupCancelled, MaybeStarted, RunState
<1>3. ViewsOK'
  BY DEF ViewsOK, CleanupReads, CleanupStarts, CleanupPolls, CleanupRaises,
         CleanupCancelled, CleanupActive, CleanupEnd
<1>4. ModelsOK'
  BY DEF ModelsOK, CleanupReads, CleanupStarts, CleanupPolls, CleanupRaises,
         CleanupCancelled
<1>5. CommandOK'
  BY DEF CommandOK, CleanupReads, CleanupStarts, CleanupPolls, CleanupRaises,
         CleanupCancelled
<1> QED BY <1>2, <1>3, <1>4, <1>5

LEMMA TypesTenant ==
  ASSUME Types, NEW v \in Views, TenantStep(v)
  PROVE  Types'
<1> USE DEF TenantStep, RunEnds, OthersStep, PersistRunEnds, RemovalRunEnds, Types
<1> USE DEF viewVars, modelVars, commandVars
<1>2. TenantOK'
  BY DEF TenantOK, RunState
<1>3. ViewsOK' /\ ModelsOK' /\ CommandOK'
  BY DEF ViewsOK, ModelsOK, CommandOK
<1> QED BY <1>2, <1>3

LEMMA TypesCommand ==
  ASSUME Types, CommandStep \/ Cancel
  PROVE  Types'
<1> USE DEF Types, CommandStep
<1> USE DEF tenantVars, viewVars, modelVars, commandVars
<1>2. TenantOK'
  BY DEF TenantOK, ReportEmpty, PrepareRaises, CreateTasks, GatherReturns,
         GatherRaises, Drained, Cancel
<1>3. ViewsOK'
  BY DEF ViewsOK, Place, ReportEmpty, PrepareRaises, CreateTasks, GatherReturns,
         GatherRaises, Drained, Cancel
<1>4. ModelsOK'
  <2>1. CASE ReportEmpty
    BY <2>1, FinalizeTypes DEF ReportEmpty, ModelsOK
  <2> QED
    BY <2>1 DEF ModelsOK, PrepareRaises, CreateTasks, GatherReturns,
                GatherRaises, Drained, Cancel
<1>5. CommandOK'
  BY CancelAssumption
  DEF CommandOK, Ended, ReportEmpty, PrepareRaises, CreateTasks, GatherReturns,
      GatherRaises, Drained, Cancel, CancelMeasurements, Unfinished
<1> QED BY <1>2, <1>3, <1>4, <1>5

-----------------------------------------------------------------------------
(* The view's side: every step keeps ViewInv.                              *)

LEMMA ViewInit == Init => ViewInv
BY DEF Init, ViewInv, Data, Cleaning, Judged, Unread, BeforeResult,
       CleanupActive

LEMMA ViewRecord ==
  ASSUME Types, ViewInv, NEW v \in Views, RecordStep(v)
  PROVE  ViewInv'
<1>1. PICK status \in Status, flag \in BOOLEAN : Recorded(v, status, flag)
  BY DEF RecordStep
<1>2. place'[v] \in {"done", "finalizing"} /\ measured'[v] = status /\ manual'[v] = flag
  BY <1>1 DEF Recorded, Record, Types, ViewsOK
<1>3. \A w \in Views \ {v} :
        place'[w] = place[w] /\ measured'[w] = measured[w] /\ manual'[w] = manual[w]
  BY <1>1 DEF Recorded, Record, Types, ViewsOK
<1>4. UNCHANGED <<owner, persistRun, removalRun, disturbed, cleanup, previously, stopping>>
  BY <1>1 DEF Recorded, tenantVars, commandVars
<1>5. ASSUME NEW w \in Views PROVE (Data(w) /\ Cleaning(w) /\ Judged(w))'
  <2>1. CASE w = v
    <3>1. Data(v)'
      BY <1>1, <1>2, <1>4 DEF ViewInv, Data, Unread
    <3>2. Cleaning(v)'
      BY <1>1, <1>2, <1>4
      DEF ViewInv, Cleaning, Unread, BeforeResult, Recorded, CleanupActive, CleanupEnd
    <3>3. Judged(v)'
      BY <1>1, <1>2, <1>4 DEF Recorded, Judged, Unread, BeforeResult, Status
    <3> QED BY <2>1, <3>1, <3>2, <3>3
  <2>2. CASE w # v
    BY <1>3, <1>4, <2>2 DEF ViewInv, Data, Cleaning, Judged
  <2> QED BY <2>1, <2>2
<1> QED BY <1>5 DEF ViewInv

LEMMA ViewException ==
  ASSUME Types, ViewInv, NEW v \in Views, ExceptionStep(v)
  PROVE  ViewInv'
<1>1. place'[v] \in {"failed", "cancelled"} /\ \A w \in Views \ {v} : place'[w] = place[w]
  BY DEF ExceptionStep, Settle, Types, ViewsOK
<1>2. UNCHANGED <<owner, removalRun, disturbed, cleanup, previously, measured, manual, stopping>>
  BY DEF ExceptionStep
<1>3. /\ persistRun'[v] # persistRun[v] => place[v] = "starting"
      /\ persistRun'[v] \in {persistRun[v], "running"}
      /\ \A w \in Views \ {v} : persistRun'[w] = persistRun[w]
  BY DEF ExceptionStep, MaybeStarted, Types, TenantOK
<1>4. ASSUME NEW w \in Views PROVE (Data(w) /\ Cleaning(w) /\ Judged(w))'
  <2>1. CASE w = v
    <3>1. Data(v)'
      BY <1>1, <1>2, <1>3 DEF ViewInv, Data, Unread
    <3>2. Cleaning(v)'
      BY <1>1, <1>2, <1>3
      DEF ViewInv, Cleaning, Unread, BeforeResult, ExceptionStep, CleanupActive,
          CleanupEnd
    <3>3. Judged(v)'
      BY <1>1, <1>2 DEF ViewInv, Judged, Unread, BeforeResult
    <3> QED BY <2>1, <3>1, <3>2, <3>3
  <2>2. CASE w # v
    BY <1>1, <1>2, <1>3, <2>2 DEF ViewInv, Data, Cleaning, Judged
  <2> QED BY <2>1, <2>2
<1> QED BY <1>4 DEF ViewInv

LEMMA ViewMove ==
  ASSUME Types, ViewInv, NEW v \in Views, MoveStep(v)
  PROVE  ViewInv'
<1> USE DEF ViewInv, Data, Cleaning, Judged, Unread, BeforeResult
<1> USE DEF Types, TenantOK, ViewsOK, At, tenantVars, modelVars, commandVars
<1>1. CASE Admit(v)
  BY <1>1 DEF Admit
<1>2. CASE CheckAnswered(v)
  BY <1>2 DEF CheckAnswered, Persisted
<1>3. CASE PersistAccepted(v)
  BY <1>3 DEF PersistAccepted
<1>4. CASE ShieldStep(v)
  <2>1. ASSUME NEW w \in Views PROVE (Data(w) /\ Cleaning(w) /\ Judged(w))'
    <3>1. CASE w = v
      BY <1>4, <3>1 DEF ShieldStep, CleanupActive
    <3>2. CASE w # v
      BY <1>4, <3>2 DEF ShieldStep
    <3> QED BY <3>1, <3>2
  <2> QED BY <2>1
<1>5. CASE Report(v)
  BY <1>5 DEF Report
<1>6. CASE Delivered(v)
  BY <1>6 DEF Delivered
<1>7. CASE CancelledShield(v)
  BY <1>7 DEF CancelledShield
<1> QED BY <1>1, <1>2, <1>3, <1>4, <1>5, <1>6, <1>7 DEF MoveStep

LEMMA ViewCleanup ==
  ASSUME Types, ViewInv, NEW v \in Views, CleanupStep(v)
  PROVE  ViewInv'
<1> USE DEF ViewInv, Data, Cleaning, Judged, Unread, BeforeResult
<1> USE DEF Types, TenantOK, ViewsOK, CommandOK, CleanupAt, CleanupMoves
<1>1. CASE CleanupReads(v)
  BY <1>1 DEF CleanupReads, CleanupActive, Persisted
<1>2. CASE CleanupStarts(v)
  BY <1>2 DEF CleanupStarts, CleanupActive
<1>3. CASE CleanupPolls(v)
  BY <1>3 DEF CleanupPolls, CleanupActive
<1>4. CASE CleanupRaises(v)
  BY <1>4 DEF CleanupRaises, CleanupActive, MaybeStarted
<1>5. CASE CleanupCancelled(v)
  BY <1>5 DEF CleanupCancelled, CleanupActive, MaybeStarted
<1> QED BY <1>1, <1>2, <1>3, <1>4, <1>5 DEF CleanupStep

LEMMA ViewTenant ==
  ASSUME Types, ViewInv, NEW v \in Views, TenantStep(v)
  PROVE  ViewInv'
<1> USE DEF ViewInv, Data, Cleaning, Judged, Unread, BeforeResult
<1> USE DEF Types, TenantOK, ViewsOK, viewVars, modelVars, commandVars
<1>1. CASE OthersStep(v)
  BY <1>1 DEF OthersStep
<1>2. ASSUME NEW state \in {"completed", "failed"}, PersistRunEnds(v, state)
      PROVE  ViewInv'
  BY <1>2 DEF PersistRunEnds, Persisted
<1>3. ASSUME NEW state \in {"completed", "failed"}, RemovalRunEnds(v, state)
      PROVE  ViewInv'
  BY <1>3 DEF RemovalRunEnds
<1> QED BY <1>1, <1>2, <1>3 DEF TenantStep, RunEnds

LEMMA ViewCommand ==
  ASSUME Types, ViewInv, Placed, CommandStep \/ Cancel
  PROVE  ViewInv'
<1> USE DEF ViewInv, Data, Cleaning, Judged, Unread, BeforeResult, Types, CommandOK
<1> USE DEF tenantVars, viewVars, modelVars, commandVars
<1>1. CASE CreateTasks
  BY <1>1 DEF CreateTasks, Placed
<1>2. CASE GatherRaises
  BY <1>2 DEF GatherRaises, CancelMeasurements
<1>3. CASE Cancel
  BY <1>3 DEF Cancel, CancelMeasurements
<1>4. CASE ReportEmpty \/ PrepareRaises \/ GatherReturns \/ Drained
  BY <1>4 DEF ReportEmpty, PrepareRaises, GatherReturns, Drained
<1> QED BY <1>1, <1>2, <1>3, <1>4 DEF CommandStep

-----------------------------------------------------------------------------
(* The command's side: where the measurements are, whom a cancellation is  *)
(* pending for, and what cannot have happened without one of the caller.   *)

Control == Placed /\ Targeted /\ Undisturbed

LEMMA ControlInit == Init => Control
BY DEF Init, Control, Placed, Targeted, Undisturbed, Ended

LEMMA ControlRecord ==
  ASSUME Types, Control, NEW v \in Views, RecordStep(v)
  PROVE  Control'
<1>1. PICK status \in Status, flag \in BOOLEAN : Recorded(v, status, flag)
  BY DEF RecordStep
<1>2. /\ place'[v] \in {"done", "finalizing"}
      /\ \A w \in Views \ {v} : place'[w] = place[w]
  BY <1>1 DEF Recorded, Record, Types, ViewsOK
<1>3. UNCHANGED <<command, gathered, cancelling, stopping, cancels, cleanup>>
  BY <1>1 DEF Recorded, commandVars
<1>4. v \notin cancelling /\ place[v] \notin {"absent"} \cup Settled
  BY <1>1 DEF Recorded, Settled
<1>5. Placed'
  BY <1>2, <1>3, <1>4 DEF Control, Placed, Unfinished, Settled
<1>6. Targeted'
  BY <1>2, <1>3, <1>4 DEF Control, Targeted, Settled, Types, CommandOK
<1>7. Undisturbed'
  BY <1>2, <1>3, <1>4 DEF Control, Undisturbed
<1> QED BY <1>5, <1>6, <1>7 DEF Control

LEMMA ControlException ==
  ASSUME Types, Control, ViewInv, NEW v \in Views, ExceptionStep(v)
  PROVE  Control'
<1>1. /\ place'[v] \in {"failed", "cancelled"}
      /\ \A w \in Views \ {v} : place'[w] = place[w]
  BY DEF ExceptionStep, Settle, Types, ViewsOK
<1>2. gathered' # "none"
  BY DEF ExceptionStep, Settle, Raised
<1>3. /\ UNCHANGED <<command, stopping, cancels, cleanup>>
      /\ cancelling' = cancelling \ {v}
      /\ place[v] \notin {"absent"} \cup Settled
  BY DEF ExceptionStep
<1>5. Placed'
  BY <1>1, <1>2, <1>3 DEF Control, Placed, Unfinished, Settled
<1>6. Targeted'
  BY <1>1, <1>2, <1>3 DEF Control, Targeted, Settled, Types, CommandOK
<1>7. Undisturbed'
  BY <1>1, <1>2, <1>3 DEF Control, Undisturbed
<1> QED BY <1>5, <1>6, <1>7 DEF Control

LEMMA ControlMove ==
  ASSUME Types, Control, NEW v \in Views, MoveStep(v)
  PROVE  Control'
<1>1. /\ place'[v] \notin {"absent", "failed", "cancelled"}
      /\ place[v] \notin {"absent"} \cup Settled
      /\ \A w \in Views \ {v} : place'[w] = place[w]
  BY DEF MoveStep, Admit, CheckAnswered, PersistAccepted, ShieldStep, Report,
         Delivered, CancelledShield, At, Settled, Types, ViewsOK
<1>2. /\ UNCHANGED <<command, gathered, stopping, cancels>>
      /\ cancelling' = cancelling \ {v}
      /\ place'[v] = "awaiting" => v \in cancelling
      /\ cleanup' = cleanup \/ cleanup' = [cleanup EXCEPT ![v] = "reading"]
  BY DEF MoveStep, Admit, CheckAnswered, PersistAccepted, ShieldStep, Report,
         Delivered, CancelledShield, At, commandVars, Types, ViewsOK
<1>5. Placed'
  BY <1>1, <1>2 DEF Control, Placed, Unfinished, Settled
<1>6. Targeted'
  BY <1>1, <1>2 DEF Control, Targeted, Settled, Types, CommandOK
<1>7. Undisturbed'
  BY <1>1, <1>2 DEF Control, Undisturbed, Types, ViewsOK
<1> QED BY <1>5, <1>6, <1>7 DEF Control

LEMMA ControlCleanup ==
  ASSUME Types, Control, NEW v \in Views, CleanupStep(v)
  PROVE  Control'
<1>1. UNCHANGED <<place, command, gathered, cancelling, cancels>>
  BY DEF CleanupStep, CleanupReads, CleanupStarts, CleanupPolls, CleanupRaises,
         CleanupCancelled, CleanupMoves
<1>2. /\ stopping' \subseteq stopping
      /\ stopping = {} => cleanup'[v] \notin {"aborted", "interrupted"}
      /\ \A w \in Views \ {v} : cleanup'[w] = cleanup[w]
  BY DEF CleanupStep, CleanupReads, CleanupStarts, CleanupPolls, CleanupRaises,
         CleanupCancelled, CleanupMoves, Types, ViewsOK
<1> QED
  BY <1>1, <1>2 DEF Control, Placed, Targeted, Undisturbed, Unfinished

LEMMA ControlTenant ==
  ASSUME Types, Control, NEW v \in Views, TenantStep(v)
  PROVE  Control'
<1>1. UNCHANGED <<place, cleanup, commandVars>>
  BY DEF TenantStep, RunEnds, OthersStep, PersistRunEnds, RemovalRunEnds, viewVars
<1> QED
  BY <1>1 DEF Control, Placed, Targeted, Undisturbed, Unfinished, commandVars

LEMMA ControlCommand ==
  ASSUME Types, Control, CommandStep \/ Cancel
  PROVE  Control'
<1> USE DEF Control, Placed, Targeted, Undisturbed, Unfinished, Types, ViewsOK
<1> USE DEF CommandOK, Ended, Settled, viewVars, commandVars
<1>1. CASE ReportEmpty
  BY <1>1 DEF ReportEmpty
<1>2. CASE PrepareRaises
  BY <1>2 DEF PrepareRaises
<1>3. CASE CreateTasks
  BY <1>3 DEF CreateTasks
<1>4. CASE GatherReturns
  BY <1>4 DEF GatherReturns
<1>5. CASE GatherRaises
  BY <1>5 DEF GatherRaises, CancelMeasurements
<1>6. CASE Drained
  BY <1>6 DEF Drained
<1>7. CASE Cancel
  BY <1>7, CancelAssumption DEF Cancel, CancelMeasurements
<1> QED BY <1>1, <1>2, <1>3, <1>4, <1>5, <1>6, <1>7 DEF CommandStep

-----------------------------------------------------------------------------
(* The models' side: who waits for what, and who reports whom.             *)

ModelInv == Waiting /\ Reporting

(* Reporting a model appends it to what was reported. *)
LEMMA FinalizeReports ==
  ASSUME ModelsOK, NEW m \in Models, Finalize(m)
  PROVE  /\ Reported' = Reported \cup {m}
         /\ \A n \in Models : results'[n] = IF n = m THEN ModelStatus(m) ELSE results[n]
         /\ m \notin Reported /\ (\A k, l \in 1..Len(reported) : reported[k] = reported[l] => k = l)
              => \A k, l \in 1..Len(reported') : reported'[k] = reported'[l] => k = l
<1>1. /\ reported' \in Seq(Models) /\ Len(reported') = Len(reported) + 1
      /\ \A k \in 1..Len(reported) : reported'[k] = reported[k]
      /\ reported'[Len(reported) + 1] = m
      /\ Len(reported) \in Nat
  BY AppendProperties, LenProperties DEF Finalize, ModelsOK
<1>2. Reported' = Reported \cup {m}
  <2>1. 1..Len(reported') = 1..Len(reported) \cup {Len(reported) + 1}
    BY <1>1
  <2> QED BY <1>1, <2>1 DEF Reported
<1>3. \A n \in Models : results'[n] = IF n = m THEN ModelStatus(m) ELSE results[n]
  BY DEF Finalize, ModelsOK
<1>4. ASSUME m \notin Reported,
             \A k, l \in 1..Len(reported) : reported[k] = reported[l] => k = l,
             NEW k \in 1..Len(reported'), NEW l \in 1..Len(reported'),
             reported'[k] = reported'[l]
      PROVE  k = l
  <2>1. \A j \in 1..Len(reported) : reported'[j] # m
    BY <1>1, <1>4 DEF Reported
  <2>2. CASE k \in 1..Len(reported) /\ l \in 1..Len(reported)
    BY <1>1, <1>4, <2>2
  <2>3. CASE k = Len(reported) + 1 \/ l = Len(reported) + 1
    BY <1>1, <1>4, <2>1, <2>3
  <2> QED BY <1>1, <2>2, <2>3
<1> QED BY <1>2, <1>3, <1>4

(* The status of a model depends on the measurements of its own views. *)
LEMMA ModelStatusStable ==
  ASSUME NEW m \in Models, \A v \in DependsOn[m] : measured'[v] = measured[v]
  PROVE  ModelStatus(m)' = ModelStatus(m)
<1>1. {measured'[v] : v \in DependsOn[m]} = {measured[v] : v \in DependsOn[m]}
  OBVIOUS
<1> QED BY <1>1 DEF ModelStatus

(* A step that leaves measurements, places and models alone keeps ModelInv. *)
LEMMA ModelUnchanged ==
  ASSUME Types, ModelInv, UNCHANGED <<place, measured, modelVars, command>>
  PROVE  ModelInv'
<1>1. \A m \in Models : ModelStatus(m)' = ModelStatus(m)
  BY ModelStatusStable
<1>2. Reported' = Reported
  BY DEF Reported, modelVars
<1> QED
  BY <1>1, <1>2 DEF ModelInv, Waiting, Reporting, modelVars

LEMMA ModelInit == Init => ModelInv
<1> SUFFICES ASSUME Init PROVE ModelInv
  OBVIOUS
<1>1. Reported = {} /\ Len(reported) = 0
  BY DEF Init, Reported
<1>2. Waiting
  BY DependsAssumption DEF Init, Waiting, Models
<1>3. Reporting
  BY <1>1 DEF Init, Reporting
<1> QED BY <1>2, <1>3 DEF ModelInv

LEMMA ModelRecord ==
  ASSUME Types, ViewInv, Placed, ModelInv, NEW v \in Views, RecordStep(v)
  PROVE  ModelInv'
<1>1. PICK status \in Status, flag \in BOOLEAN : Recorded(v, status, flag)
  BY DEF RecordStep
<1>2. /\ measured[v] = "none" /\ measured'[v] # "none"
      /\ \A w \in Views \ {v} : measured'[w] = measured[w] /\ place'[w] = place[w]
      /\ place'[v] = IF toReport'[v] = {} THEN "done" ELSE "finalizing"
      /\ toReport[v] = {} /\ place[v] # "done"
  BY <1>1 DEF Recorded, Record, Types, ViewsOK, ModelsOK, ViewInv, Judged, BeforeResult,
              Status, ModelInv, Waiting
<1>3. /\ \A m \in Models : pending'[m] = pending[m] \ {v}
      /\ \A w \in Views \ {v} : toReport'[w] = toReport[w]
      /\ toReport'[v] = {m \in Models : pending[m] = {v}}
      /\ UNCHANGED <<results, reported, command>>
  BY <1>1 DEF Recorded, Record, Types, ModelsOK, commandVars
<1>4. \A m \in Models : pending'[m] = {w \in DependsOn[m] : measured'[w] = "none"}
  BY <1>2, <1>3, DependsAssumption DEF ModelInv, Waiting
<1>5. ASSUME NEW w \in Views
      PROVE  /\ place'[w] \in BeforeResult \cup {"done"} => toReport'[w] = {}
             /\ \A m \in toReport'[w] :
                  w \in DependsOn[m] /\ pending'[m] = {} /\ results'[m] = "none"
             /\ \A u \in Views \ {w} : toReport'[w] \cap toReport'[u] = {}
  <2>1. place'[w] \in BeforeResult \cup {"done"} => toReport'[w] = {}
    BY <1>2, <1>3 DEF ModelInv, Waiting, BeforeResult, Unread
  <2>2. ASSUME NEW m \in toReport'[w]
        PROVE  w \in DependsOn[m] /\ pending'[m] = {} /\ results'[m] = "none"
    <3>1. CASE w = v
      BY <1>3, <3>1, m \in toReport'[w] DEF ModelInv, Waiting, Reporting
    <3>2. CASE w # v
      BY <1>3, <3>2, m \in toReport'[w] DEF ModelInv, Waiting, Types, ModelsOK
    <3> QED BY <3>1, <3>2
  <2>3. ASSUME NEW u \in Views \ {w} PROVE toReport'[w] \cap toReport'[u] = {}
    <3>1. \A x \in Views \ {v} : \A m \in toReport[x] : pending[m] = {}
      BY DEF ModelInv, Waiting
    <3>2. CASE w = v \/ u = v
      BY <1>3, <3>1, <3>2
    <3>3. CASE w # v /\ u # v
      BY <1>3, <3>3 DEF ModelInv, Waiting
    <3> QED BY <3>2, <3>3
  <2> QED BY <2>1, <2>2, <2>3
<1>6. Waiting'
  BY <1>4, <1>5 DEF Waiting
<1>7. Reported' = Reported
  BY <1>3 DEF Reported
<1>8. ASSUME NEW m \in Models, results[m] # "none"
      PROVE  pending'[m] = {} /\ results[m] = ModelStatus(m)'
  <2>1. v \notin DependsOn[m] /\ pending[m] = {} /\ results[m] = ModelStatus(m)
    BY <1>2, <1>8 DEF ModelInv, Waiting, Reporting
  <2>2. ModelStatus(m)' = ModelStatus(m)
    BY <1>2, <2>1, ModelStatusStable, DependsAssumption
  <2> QED BY <1>3, <2>1, <2>2
<1>9. ASSUME NEW m \in Models, command # "preparing", command # "raised",
             results[m] = "none", pending'[m] = {}
      PROVE  \E w \in DependsOn[m] : m \in toReport'[w]
  <2>1. CASE pending[m] = {}
    <3>1. PICK w \in DependsOn[m] : m \in toReport[w]
      BY <1>9, <2>1 DEF ModelInv, Reporting
    <3>2. w \in Views /\ w # v
      BY <1>2, <3>1, DependsAssumption
    <3> QED BY <1>3, <3>1, <3>2
  <2>2. CASE pending[m] # {}
    <3>1. pending[m] = {v}
      BY <1>3, <1>9, <2>2
    <3> QED BY <1>3, <3>1 DEF ModelInv, Waiting
  <2> QED BY <2>1, <2>2
<1>10. command # "returned"
  BY <1>2 DEF ModelInv, Reporting
<1>11. Reporting'
  BY <1>3, <1>7, <1>8, <1>9, <1>10 DEF ModelInv, Reporting
<1> QED BY <1>6, <1>11 DEF ModelInv

(* Places alone matter only by the models a measurement has to report. *)
LEMMA ModelPlaces ==
  ASSUME Types, ModelInv, UNCHANGED <<measured, modelVars>>,
         command' = command \/ (command' = "raised") \/ (command = "gathering" /\ command' = "draining"),
         command = "returned" => UNCHANGED place,
         \A v \in Views : place'[v] \in BeforeResult \cup {"done"} => toReport[v] = {}
  PROVE  ModelInv'
<1>1. \A m \in Models : ModelStatus(m)' = ModelStatus(m)
  BY ModelStatusStable
<1>2. Reported' = Reported
  BY DEF Reported, modelVars
<1>3. Waiting'
  BY DEF ModelInv, Waiting, modelVars
<1>4. Reporting'
  BY <1>1, <1>2 DEF ModelInv, Reporting, modelVars
<1> QED
  BY <1>3, <1>4 DEF ModelInv

LEMMA ModelException ==
  ASSUME Types, ModelInv, NEW v \in Views, ExceptionStep(v)
  PROVE  ModelInv'
<1>1. /\ place'[v] \in {"failed", "cancelled"}
      /\ \A w \in Views \ {v} : place'[w] = place[w]
  BY DEF ExceptionStep, Settle, Types, ViewsOK
<1>2. place[v] # "done" /\ UNCHANGED <<measured, modelVars, command>>
  BY DEF ExceptionStep, Settled
<1>3. command # "returned"
  BY <1>2 DEF ModelInv, Reporting
<1>4. \A w \in Views : place'[w] \in BeforeResult \cup {"done"} => toReport[w] = {}
  BY <1>1 DEF ModelInv, Waiting, BeforeResult, Unread
<1> QED BY <1>2, <1>3, <1>4, ModelPlaces

(* One model is reported that no measurement will report again. *)
LEMMA ModelReports ==
  ASSUME Types, ModelInv, NEW m \in Models, Finalize(m),
         results[m] = "none", pending[m] = {}, UNCHANGED <<measured, pending, command>>,
         \A w \in Views : toReport'[w] = toReport[w] \ {m},
         \A w \in Views : place'[w] \in BeforeResult \cup {"done"} => toReport'[w] = {},
         command # "returned"
  PROVE  ModelInv'
<1>1. /\ Reported' = Reported \cup {m}
      /\ \A n \in Models : results'[n] = IF n = m THEN ModelStatus(m) ELSE results[n]
      /\ \A k, l \in 1..Len(reported') : reported'[k] = reported'[l] => k = l
  BY FinalizeReports DEF Types, ModelInv, Reporting
<1>2. \A n \in Models : ModelStatus(n)' = ModelStatus(n)
  BY ModelStatusStable
<1>3. ModelStatus(m) # "none"
  BY ModelStatusType
<1>4. \A w \in Views : \A n \in toReport'[w] :
        w \in DependsOn[n] /\ pending'[n] = {} /\ results'[n] = "none"
  BY <1>1 DEF ModelInv, Waiting, Types, ModelsOK
<1>5. \A w \in Views : \A u \in Views \ {w} : toReport'[w] \cap toReport'[u] = {}
  BY DEF ModelInv, Waiting
<1>6. Waiting'
  BY <1>4, <1>5 DEF ModelInv, Waiting
<1>7. \A n \in Models : n \in Reported' <=> results'[n] # "none"
  BY <1>1, <1>3 DEF ModelInv, Reporting
<1>8. \A n \in Models : results'[n] # "none" => pending'[n] = {} /\ results'[n] = ModelStatus(n)'
  BY <1>1, <1>2 DEF ModelInv, Reporting
<1>9. command # "preparing" /\ command # "raised" =>
        \A n \in Models : results'[n] = "none" /\ pending'[n] = {} =>
          \E w \in DependsOn[n] : n \in toReport'[w]
  BY <1>1, <1>3, DependsAssumption DEF ModelInv, Reporting
<1>10. Reporting'
  BY <1>1, <1>7, <1>8, <1>9 DEF Reporting
<1> QED BY <1>6, <1>10 DEF ModelInv

LEMMA ModelMove ==
  ASSUME Types, ModelInv, NEW v \in Views, MoveStep(v)
  PROVE  ModelInv'
<1>1. CASE Report(v)
  <2>1. PICK m \in toReport[v] :
          Finalize(m) /\ toReport' = [toReport EXCEPT ![v] = @ \ {m}]
    BY <1>1 DEF Report
  <2>2. m \in Models /\ results[m] = "none" /\ pending[m] = {}
    BY DEF Types, ModelsOK, ModelInv, Waiting
  <2>3. \A w \in Views \ {v} : m \notin toReport[w]
    BY DEF ModelInv, Waiting
  <2>4. \A w \in Views : toReport'[w] = toReport[w] \ {m}
    BY <2>1, <2>3 DEF Types, ModelsOK
  <2>5. /\ UNCHANGED <<measured, pending, command>> /\ place[v] = "finalizing"
        /\ place'[v] = "delivering" /\ \A w \in Views \ {v} : place'[w] = place[w]
    BY <1>1 DEF Report, At, commandVars, Types, ViewsOK
  <2>6. \A w \in Views : place'[w] \in BeforeResult \cup {"done"} => toReport'[w] = {}
    BY <2>4, <2>5 DEF ModelInv, Waiting, BeforeResult, Unread
  <2>7. command # "returned"
    BY <2>5 DEF ModelInv, Reporting
  <2> QED BY <2>1, <2>2, <2>4, <2>5, <2>6, <2>7, ModelReports
<1>2. CASE ~Report(v)
  <2>1. /\ place[v] \in BeforeResult \ {"absent"} \/ (place[v] = "delivering" /\ toReport[v] # {})
           \/ (place[v] = "delivering" /\ place'[v] = "done" /\ toReport[v] = {})
        /\ place[v] = "delivering" /\ toReport[v] # {} => place'[v] = "finalizing"
        /\ \A w \in Views \ {v} : place'[w] = place[w]
        /\ UNCHANGED <<measured, modelVars, command>>
    BY <1>2 DEF MoveStep, Admit, CheckAnswered, PersistAccepted, ShieldStep,
                Delivered, CancelledShield, At, BeforeResult, Unread, commandVars,
                Types, ViewsOK
  <2>2. command # "returned"
    BY <2>1 DEF ModelInv, Reporting, BeforeResult, Unread
  <2>3. \A w \in Views : place'[w] \in BeforeResult \cup {"done"} => toReport[w] = {}
    BY <2>1 DEF ModelInv, Waiting, BeforeResult, Unread
  <2> QED BY <2>1, <2>2, <2>3, ModelPlaces
<1> QED BY <1>1, <1>2

LEMMA ModelElsewhere ==
  ASSUME Types, ModelInv, NEW v \in Views, CleanupStep(v) \/ TenantStep(v)
  PROVE  ModelInv'
<1>1. UNCHANGED <<place, measured, modelVars, command>>
  BY DEF CleanupStep, CleanupReads, CleanupStarts, CleanupPolls, CleanupRaises,
         CleanupCancelled, CleanupMoves, TenantStep, RunEnds, OthersStep, PersistRunEnds,
         RemovalRunEnds, viewVars, commandVars
<1> QED BY <1>1, ModelUnchanged

LEMMA ModelCommand ==
  ASSUME Types, Placed, ViewInv, ModelInv, CommandStep \/ Cancel
  PROVE  ModelInv'
<1>1. CASE ReportEmpty
  <2>1. PICK m \in Models : DependsOn[m] = {} /\ results[m] = "none" /\ Finalize(m)
    BY <1>1 DEF ReportEmpty
  <2>2. pending[m] = {} /\ \A w \in Views : m \notin toReport[w]
    BY <2>1 DEF ModelInv, Waiting
  <2>3. UNCHANGED <<place, measured, pending, toReport, command>> /\ command # "returned"
    BY <1>1 DEF ReportEmpty, viewVars, commandVars
  <2>4. \A w \in Views : toReport'[w] = toReport[w] \ {m}
    BY <2>2, <2>3
  <2>5. \A w \in Views : place'[w] \in BeforeResult \cup {"done"} => toReport'[w] = {}
    BY <2>3 DEF ModelInv, Waiting
  <2>6. UNCHANGED <<measured, pending, command>>
    BY <2>3
  <2> QED
    BY <2>1, <2>2, <2>3, <2>4, <2>5, <2>6, ModelReports
<1>2. CASE CreateTasks
  <2>1. \A m \in Models : ModelStatus(m)' = ModelStatus(m)
    BY <1>2, ModelStatusStable DEF CreateTasks
  <2>2. \A m \in Models : pending[m] = {} => results[m] # "none"
    <3>1. \A v \in Views : measured[v] = "none"
      BY <1>2 DEF CreateTasks, Placed, ViewInv, Judged, BeforeResult, Unread
    <3>2. ASSUME NEW m \in Models PROVE pending[m] = DependsOn[m]
      <4>1. \A v \in DependsOn[m] : measured[v] = "none"
        BY <3>1, DependsAssumption
      <4>2. {v \in DependsOn[m] : measured[v] = "none"} = DependsOn[m]
        BY <4>1
      <4> QED BY <4>2 DEF ModelInv, Waiting
    <3> QED BY <1>2, <3>2 DEF CreateTasks
  <2>3. Reported' = Reported
    BY <1>2 DEF CreateTasks, modelVars, Reported
  <2>4. \A v \in Views : toReport[v] = {}
    BY <1>2 DEF CreateTasks, Placed, ModelInv, Waiting, BeforeResult, Unread
  <2>5. Waiting'
    BY <1>2, <2>4 DEF CreateTasks, ModelInv, Waiting, modelVars
  <2>6. Reporting'
    BY <1>2, <2>1, <2>2, <2>3 DEF CreateTasks, ModelInv, Reporting, modelVars
  <2> QED BY <2>5, <2>6 DEF ModelInv
<1>3. CASE GatherReturns
  <2>1. \A v \in Views : place[v] = "done"
    BY <1>3 DEF GatherReturns, Unfinished, Placed, Settled
  <2>2. \A m \in Models : ModelStatus(m)' = ModelStatus(m)
    BY <1>3, ModelStatusStable DEF GatherReturns, viewVars
  <2>3. Reported' = Reported
    BY <1>3 DEF GatherReturns, modelVars, Reported
  <2>4. Waiting'
    BY <1>3 DEF GatherReturns, ModelInv, Waiting, modelVars, viewVars
  <2>5. Reporting'
    BY <1>3, <2>1, <2>2, <2>3 DEF GatherReturns, ModelInv, Reporting, modelVars, viewVars
  <2> QED BY <2>4, <2>5 DEF ModelInv
<1>4. CASE PrepareRaises \/ GatherRaises \/ Drained \/ Cancel
  <2>1. /\ UNCHANGED <<place, measured, modelVars>>
        /\ command' \in {command, "raised"} \/ (command = "gathering" /\ command' = "draining")
    BY <1>4 DEF PrepareRaises, GatherRaises, Drained, Cancel, viewVars
  <2>2. \A v \in Views : place'[v] \in BeforeResult \cup {"done"} => toReport[v] = {}
    BY <2>1 DEF ModelInv, Waiting
  <2> QED BY <2>1, <2>2, ModelPlaces
<1> QED BY <1>1, <1>2, <1>3, <1>4 DEF CommandStep

-----------------------------------------------------------------------------
(* The invariant, and what follows from it.                                *)

Inv == Types /\ ViewInv /\ Control /\ ModelInv

LEMMA InvNext == Inv /\ [Next]_vars => Inv'
<1> SUFFICES ASSUME Inv, [Next]_vars PROVE Inv'
  OBVIOUS
<1> USE DEF Inv
<1>0. Placed /\ Targeted
  BY DEF Control
<1>1. ASSUME NEW v \in Views, MeasurementStep(v) PROVE Inv'
  <2>1. CASE RecordStep(v)
    BY <1>0, <2>1, TypesRecord, ViewRecord, ControlRecord, ModelRecord
  <2>2. CASE ExceptionStep(v)
    BY <1>0, <2>2, TypesException, ViewException, ControlException, ModelException
  <2>3. CASE MoveStep(v)
    BY <1>0, <2>3, TypesMove, ViewMove, ControlMove, ModelMove
  <2> QED BY <1>0, <1>1, <2>1, <2>2, <2>3, StepShapes
<1>2. ASSUME NEW v \in Views, CleanupStep(v) PROVE Inv'
  BY <1>2, TypesCleanup, ViewCleanup, ControlCleanup, ModelElsewhere
<1>3. ASSUME NEW v \in Views, TenantStep(v) PROVE Inv'
  BY <1>3, TypesTenant, ViewTenant, ControlTenant, ModelElsewhere
<1>4. CASE CommandStep \/ Cancel
  BY <1>0, <1>4, TypesCommand, ViewCommand, ControlCommand, ModelCommand
<1>5. CASE UNCHANGED vars
  <2> USE <1>5 DEF vars, tenantVars, viewVars, modelVars, commandVars
  <2>1. Types'
    BY DEF Types, TenantOK, ViewsOK, ModelsOK, CommandOK
  <2>2. ViewInv'
    BY DEF ViewInv, Data, Cleaning, Judged
  <2>3. Control'
    BY DEF Control, Placed, Targeted, Undisturbed, Unfinished
  <2>4. ModelInv'
    BY ModelUnchanged
  <2> QED BY <2>1, <2>2, <2>3, <2>4
<1> QED
  BY <1>1, <1>2, <1>3, <1>4, <1>5 DEF Next, Terminated

LEMMA InvHolds == Spec => []Inv
<1>1. Init => Inv
  BY TypesInit, ViewInit, ControlInit, ModelInit DEF Inv
<1> QED
  BY <1>1, InvNext, PTL DEF Spec

(* Every variable keeps its type, however many views and models there are  *)
(* (the state of _measure_dependencies and its measurements).              *)
THEOREM TypeCorrect == Spec => []TypeOK
<1>1. Inv => TypeOK
  BY DEF Inv, Types, TypeOK, TenantOK, ViewsOK, ModelsOK, CommandOK
<1> QED
  BY <1>1, InvHolds, PTL

(* What a measured view still holds of its measurement is flagged for      *)
(* manual intervention, whatever of _measure_view went wrong and whatever  *)
(* others did, unless they took away what its monitor had shown.           *)
THEOREM LeftoversAreFlagged == Spec => []LeftoverFlagged
<1>1. Inv => LeftoverFlagged
  BY DEF Inv, ViewInv, Data, Cleaning, Judged, Types, ViewsOK, LeftoverFlagged, Leftover,
         Misread
<1> QED
  BY <1>1, InvHolds, PTL

(* A view reported as cleaned up is: no data of the measurement, and no    *)
(* run of the command on it is going (_run_cleanup).                       *)
THEOREM RemovedDataIsGone == Spec => []RemovedIsGone
<1>1. Inv => RemovedIsGone
  BY DEF Inv, ViewInv, Data, Cleaning, Judged, RemovedIsGone, Leftover
<1> QED
  BY <1>1, InvHolds, PTL

(* A model reported as completed left nothing behind on any of its views,  *)
(* but for those whose monitor was read before others used them            *)
(* (_create_measurement_result_for_model).                                 *)
THEOREM CompletedModelsAreClean == Spec => []CompletedModelIsClean
<1>1. Inv => CompletedModelIsClean
  <2> SUFFICES ASSUME Inv, NEW m \in Models, results[m] = "completed"
               PROVE  m \notin Incomplete /\ \A v \in DependsOn[m] : Leftover(v) => Misread(v)
    BY DEF CompletedModelIsClean
  <2>1. ModelStatus(m) = "completed"
    BY DEF Inv, ModelInv, Reporting
  <2>2. /\ m \notin Incomplete
        /\ {measured[v] : v \in DependsOn[m]} \subseteq {"completed", "already_persisted"}
    BY <2>1 DEF ModelStatus
  <2>3. ASSUME NEW v \in DependsOn[m] PROVE Leftover(v) => Misread(v)
    <3>1. v \in Views /\ measured[v] \in {"completed", "already_persisted"}
      BY <2>2, DependsAssumption
    <3> QED
      BY <3>1 DEF Inv, ViewInv, Data, Cleaning, Judged, Leftover, Misread
  <2> QED BY <2>2, <2>3
<1> QED
  BY <1>1, InvHolds, PTL

(* Every model is reported once, when its last view is measured, and all   *)
(* of them before the command returns (measure, finalize).                 *)
THEOREM ModelsAreReported == Spec => []ReportedWhenFinal
<1>1. Inv => ReportedWhenFinal
  <2> SUFFICES ASSUME Inv PROVE ReportedWhenFinal
    OBVIOUS
  <2> USE DEF Inv, ModelInv
  <2>1. \A k, l \in 1..Len(reported) : reported[k] = reported[l] => k = l
    BY DEF Reporting
  <2>2. ASSUME NEW m \in Models, m \in Reported, NEW v \in DependsOn[m]
        PROVE  measured[v] # "none"
    BY <2>2 DEF Waiting, Reporting
  <2>3. ASSUME NEW m \in Models, command \in {"gathering", "draining"},
               m \notin Reported, \A v \in DependsOn[m] : measured[v] # "none"
        PROVE  \E v \in DependsOn[m] : m \in toReport[v]
    <3>1. pending[m] = {} /\ results[m] = "none"
      BY <2>3 DEF Waiting, Reporting
    <3> QED BY <2>3, <3>1 DEF Reporting
  <2>4. ASSUME command = "returned" PROVE Reported = Models
    <3>1. \A v \in Views : measured[v] # "none" /\ toReport[v] = {}
      BY <2>4 DEF Reporting, Waiting, ViewInv, Judged
    <3>2. ASSUME NEW m \in Models PROVE m \in Reported
      <4>1. pending[m] = {}
        BY <3>1, DependsAssumption DEF Waiting
      <4>2. results[m] # "none"
        BY <2>4, <3>1, <4>1, DependsAssumption DEF Reporting
      <4> QED BY <4>2 DEF Reporting
    <3>3. Reported \subseteq Models
      BY ElementOfSeq DEF Reported, Types, ModelsOK
    <3> QED BY <3>2, <3>3
  <2> QED BY <2>1, <2>2, <2>3, <2>4 DEF ReportedWhenFinal
<1> QED
  BY <1>1, InvHolds, PTL

(* No failure of another measurement or of a callback interrupts a cleanup *)
(* behind its shield; only the caller can (asyncio.shield).                *)
THEOREM CleanupsAreUndisturbed == Spec => []CleanupUndisturbed
<1>1. Inv => CleanupUndisturbed
  BY DEF Inv, Control, Undisturbed, CleanupUndisturbed
<1> QED
  BY <1>1, InvHolds, PTL

(* No cleanup task is going when the command has ended.                    *)
THEOREM NoCleanupIsOrphaned == Spec => []NoOrphanCleanup
<1>1. Inv => NoOrphanCleanup
  BY DEF Inv, Control, Placed, Unfinished, Settled, ViewInv, Cleaning, NoOrphanCleanup
<1> QED
  BY <1>1, InvHolds, PTL

(* Whatever others persist and remove while their views are measured: the  *)
(* command removes data of others only if they made it after the monitor   *)
(* had been read (_measure_view between is_persisted and the end of        *)
(* run_persistence_removal).                                               *)
THEOREM ForeignDataIsKept == Spec => ForeignDataKept
<1> DEFINE Kept(v) ==
      owner[v] = "other" /\ owner'[v] # "other" /\ removalRun'[v] # removalRun[v] =>
        v \in disturbed /\ ~previously[v]
<1>1. Inv /\ [Next]_vars => [\A v \in Views : Kept(v)]_vars
  <2> SUFFICES ASSUME Inv, Next, NEW v \in Views,
                      owner[v] = "other" /\ owner'[v] # "other",
                      removalRun'[v] # removalRun[v]
               PROVE  v \in disturbed /\ ~previously[v]
    OBVIOUS
  <2> USE DEF Inv, Types, TenantOK
  <2>1. removalRun[v] # "none" => v \in disturbed /\ ~previously[v]
    BY DEF ViewInv, Data, Cleaning
  <2>2. ASSUME NEW w \in Views, TenantStep(w) PROVE removalRun[v] # "none"
    BY <2>2 DEF TenantStep, RunEnds, OthersStep, PersistRunEnds, RemovalRunEnds
  <2>3. ASSUME NEW w \in Views, MeasurementStep(w) PROVE owner' = owner
    <3>1. Targeted
      BY DEF Control
    <3>2. RecordStep(w) \/ ExceptionStep(w) \/ MoveStep(w)
      BY <2>3, <3>1, StepShapes
    <3> QED
      BY <3>2 DEF RecordStep, Recorded, ExceptionStep, MoveStep, Admit, CheckAnswered,
                  PersistAccepted, ShieldStep, Report, Delivered, CancelledShield, tenantVars
  <2>4. ASSUME NEW w \in Views, CleanupStep(w) PROVE owner' = owner
    BY <2>4 DEF CleanupStep, CleanupReads, CleanupStarts, CleanupPolls, CleanupRaises,
                CleanupCancelled, CleanupMoves
  <2>5. CASE CommandStep \/ Cancel
    BY <2>5 DEF CommandStep, ReportEmpty, PrepareRaises, CreateTasks, GatherReturns,
                GatherRaises, Drained, Cancel, tenantVars
  <2>6. Terminated => owner' = owner
    BY DEF Terminated, vars, tenantVars
  <2> QED BY <2>1, <2>2, <2>3, <2>4, <2>5, <2>6 DEF Next
<1> QED
  BY <1>1, InvHolds, PTL DEF Spec, ForeignDataKept


-----------------------------------------------------------------------------
(* What ENABLED says of the steps of MeasurementResumed, CleanupResumed    *)
(* and CommandStep, spelled out.                                           *)

CommandGoesOn ==
  \/ /\ command = "preparing"
     /\ \/ \A m \in Models : DependsOn[m] = {} => results[m] # "none"
        \/ \E m \in Models :
             /\ DependsOn[m] = {} /\ results[m] = "none"
             /\ \A n \in Models : n < m /\ DependsOn[n] = {} => results[n] # "none"
  \/ command = "gathering" /\ (gathered # "none" \/ Unfinished = {})
  \/ command = "draining" /\ Unfinished = {}

MeasurementGoesOn(v) ==
  \/ v \in cancelling
  \/ /\ place[v] = "queued" /\ Cardinality(Admitted) < MaxConcurrency
     /\ \A w \in Views : w < v => place[w] # "queued"
  \/ place[v] \in {"checking", "starting", "polling", "delivering"}
  \/ place[v] \in {"shielding", "awaiting"} /\ cleanup[v] \in CleanupEnd
  \/ place[v] = "finalizing" /\ toReport[v] # {}

CleanupGoesOn(v) == cleanup[v] \in CleanupActive

(* As long as the command has not ended, it, a measurement or a cleanup    *)
(* can go on without the tenant: nobody waits in a circle.                 *)
NeverStuck ==
  command \notin Ended =>
    CommandGoesOn \/ \E v \in Views : MeasurementGoesOn(v) \/ CleanupGoesOn(v)

(* Who waits for a cleanup has one, and who reports has something to.      *)
Resumable(v) ==
  /\ place[v] \in {"shielding", "awaiting"} => cleanup[v] # "none"
  /\ place[v] = "finalizing" => toReport[v] # {}
ViewsResumable == \A v \in Views : Resumable(v)

LEMMA ResumableMeasurement ==
  ASSUME Types, ViewInv, ViewsResumable, NEW v \in Views,
         RecordStep(v) \/ ExceptionStep(v) \/ MoveStep(v)
  PROVE  ViewsResumable'
<1> USE DEF ViewsResumable, Resumable
<1> USE DEF Types, TenantOK, ViewsOK, ModelsOK, At, tenantVars, modelVars, commandVars
<1>1. CASE RecordStep(v)
  BY <1>1 DEF RecordStep, Recorded, Record
<1>2. CASE ExceptionStep(v)
  BY <1>2 DEF ExceptionStep, Settle, MaybeStarted
<1>3. CASE Admit(v)
  BY <1>3 DEF Admit
<1>4. CASE CheckAnswered(v)
  BY <1>4 DEF CheckAnswered
<1>5. CASE PersistAccepted(v)
  BY <1>5 DEF PersistAccepted
<1>6. CASE ShieldStep(v)
  BY <1>6 DEF ShieldStep
<1>7. CASE Report(v)
  BY <1>7 DEF Report
<1>8. CASE Delivered(v)
  BY <1>8 DEF Delivered
<1>9. CASE CancelledShield(v)
  BY <1>9 DEF CancelledShield
<1>10. QED
  BY <1>1, <1>2, <1>3, <1>4, <1>5, <1>6, <1>7, <1>8, <1>9 DEF MoveStep

LEMMA ResumableElsewhere ==
  ASSUME Types, ViewInv, ViewsResumable,
         \/ \E v \in Views : CleanupStep(v) \/ TenantStep(v)
         \/ CommandStep \/ Cancel \/ UNCHANGED vars
  PROVE  ViewsResumable'
<1> USE DEF ViewsResumable, Resumable, Types, TenantOK, ViewsOK
<1> USE DEF tenantVars, viewVars, modelVars, commandVars
<1>1. ASSUME NEW v \in Views, CleanupStep(v) PROVE ViewsResumable'
  <2>1. \E c \in CleanupActive \cup CleanupEnd : CleanupMoves(v, c)
    BY <1>1 DEF CleanupStep, CleanupReads, CleanupStarts, CleanupPolls,
       CleanupRaises, CleanupCancelled, CleanupActive, CleanupEnd
  <2>2. QED
    BY <2>1 DEF CleanupMoves, CleanupActive, CleanupEnd
<1>2. ASSUME NEW v \in Views, TenantStep(v) PROVE ViewsResumable'
  BY <1>2 DEF TenantStep, RunEnds, OthersStep, PersistRunEnds, RemovalRunEnds, Persisted
<1>3. CASE CreateTasks
  BY <1>3 DEF CreateTasks
<1>4. CASE ReportEmpty \/ PrepareRaises \/ GatherReturns \/ Drained \/ Cancel \/ GatherRaises
  BY <1>4 DEF ReportEmpty, PrepareRaises, GatherReturns, Drained, Cancel, GatherRaises
<1>5. CASE UNCHANGED vars
  BY <1>5 DEF vars
<1>6. QED
  BY <1>1, <1>2, <1>3, <1>4, <1>5 DEF CommandStep

LEMMA ResumableHolds == Spec => []ViewsResumable
<1>1. Init => ViewsResumable
  BY DEF Init, ViewsResumable, Resumable
<1>2. ASSUME Inv, ViewsResumable, [Next]_vars PROVE ViewsResumable'
  <2> USE DEF Inv
  <2>1. ASSUME NEW v \in Views, MeasurementStep(v) PROVE ViewsResumable'
    BY <1>2, <2>1, StepShapes, ResumableMeasurement DEF Control
  <2>2. QED
    BY <1>2, <2>1, ResumableElsewhere DEF Next, Terminated
<1>3. QED
  BY <1>1, <1>2, InvHolds, PTL DEF Spec


(* The first of some views or models.                                      *)
LEMMA First ==
  ASSUME NEW some \in SUBSET Nat, some # {}
  PROVE  \E k \in some : \A l \in some : ~(l < k)
<1>1. PICK k \in some : \A l \in some : ~(<<l, k>> \in OpToRel(<, Nat))
  <2>1. IsWellFoundedOn(OpToRel(<, Nat), Nat)
    BY NatLessThanWellFounded
  <2>2. QED
    BY <2>1, WFMin
<1>2. ASSUME NEW l \in some, l < k PROVE FALSE
  <2>1. <<l, k>> \in OpToRel(<, Nat)
    BY <1>2 DEF OpToRel
  <2>2. QED
    BY <1>1, <2>1
<1>3. QED
  BY <1>1, <1>2

LEMMA SomethingGoesOn ==
  ASSUME Types, ViewsResumable
  PROVE  NeverStuck
<1> SUFFICES ASSUME command \notin Ended, ~CommandGoesOn
             PROVE  \E v \in Views : MeasurementGoesOn(v) \/ CleanupGoesOn(v)
  BY DEF NeverStuck
<1> DEFINE Empty == {m \in Models : DependsOn[m] = {} /\ results[m] = "none"}
           Queued == {v \in Views : place[v] = "queued"}
<1>1. command # "preparing"
  <2>1. CASE Empty = {}
    BY <2>1 DEF CommandGoesOn
  <2>2. CASE Empty # {}
    <3>1. Empty \in SUBSET Nat
      BY DEF Models
    <3>2. PICK m \in Empty : \A n \in Empty : ~(n < m)
      BY <2>2, <3>1, First
    <3>3. \A n \in Models : n < m /\ DependsOn[n] = {} => results[n] # "none"
      BY <3>2
    <3>4. QED
      BY <3>2, <3>3 DEF CommandGoesOn
  <2>3. QED
    BY <2>1, <2>2
<1>2. Unfinished # {}
  BY <1>1 DEF Types, CommandOK, Ended, CommandGoesOn
<1>3. ASSUME NEW v \in Admitted PROVE MeasurementGoesOn(v) \/ CleanupGoesOn(v)
  <2>1. v \in Views /\ place[v] \in Place \ ({"absent", "queued"} \cup Settled)
    BY DEF Admitted, Types, ViewsOK
  <2>2. CASE place[v] \in {"shielding", "awaiting"}
    <3>1. cleanup[v] \in CleanupActive \cup CleanupEnd
      BY <2>1, <2>2 DEF Types, ViewsOK, ViewsResumable, Resumable
    <3>2. QED
      BY <2>2, <3>1 DEF MeasurementGoesOn, CleanupGoesOn
  <2>3. CASE place[v] = "finalizing"
    BY <2>1, <2>3 DEF MeasurementGoesOn, ViewsResumable, Resumable
  <2>4. CASE place[v] \in {"checking", "starting", "polling", "delivering"}
    BY <2>4 DEF MeasurementGoesOn
  <2>5. QED
    BY <2>1, <2>2, <2>3, <2>4 DEF Place, Settled
<1>4. CASE Admitted = {}
  <2>1. Queued # {} /\ Queued \in SUBSET Nat
    BY <1>2, <1>4 DEF Unfinished, Admitted, Views
  <2>2. PICK v \in Queued : \A w \in Queued : ~(w < v)
    BY <2>1, First
  <2>3. Cardinality(Admitted) < MaxConcurrency
    BY <1>4, FS_EmptySet, ConcurrencyAssumption
  <2>4. \A w \in Views : w < v => place[w] # "queued"
    BY <2>2
  <2>5. MeasurementGoesOn(v)
    BY <2>2, <2>3, <2>4 DEF MeasurementGoesOn
  <2>6. QED
    BY <2>2, <2>5
<1>5. QED
  BY <1>3, <1>4 DEF Admitted

(* NeverStuck: whatever the tenant does, no measurement, cleanup, shield   *)
(* or gather of _measure_dependencies waits for another in a circle.       *)
THEOREM MeasurementsAreNeverStuck == Spec => []NeverStuck
<1>1. Inv /\ ViewsResumable => NeverStuck
  BY SomethingGoesOn DEF Inv
<1>2. QED
  BY <1>1, InvHolds, ResumableHolds, PTL


-----------------------------------------------------------------------------
(* What has been done so far: steps of the command, of each measurement,   *)
(* its cleanup and its two runs, reports.                                  *)

CommandRank ==
  [preparing |-> 0, gathering |-> 1, draining |-> 2, returned |-> 3, raised |-> 3]
PlaceRank ==
  [absent |-> 0, queued |-> 1, checking |-> 2, starting |-> 3, polling |-> 4,
   shielding |-> 5, awaiting |-> 6, delivering |-> 7, finalizing |-> 8,
   done |-> 9, failed |-> 9, cancelled |-> 9]
CleanupRank ==
  [none |-> 0, reading |-> 1, posting |-> 2, removing |-> 3, removed |-> 4,
   refused |-> 4, interrupted |-> 4, timed_out |-> 4, errored |-> 4, aborted |-> 4]
RunRank == [none |-> 0, running |-> 1, completed |-> 2, failed |-> 2]

Progress(v) ==
  PlaceRank[place[v]] + CleanupRank[cleanup[v]] + RunRank[persistRun[v]]
    + RunRank[removalRun[v]]
Done == {c \in Views \X (1..17) : c[2] <= Progress(c[1])}

(* A model is reported between two stays of its measurement in `finalize`, *)
(* one step back of the measurement and two steps on of the reports.       *)
Work == CommandRank[command] + cancels + 2 * Len(reported) + Cardinality(Done)
MostWork == 3 + MaxCancels + 2 * NumModels + 17 * NumViews

LEMMA Ranks ==
  /\ \A p \in {"preparing", "gathering", "draining"} \cup Ended : CommandRank[p] \in 0..3
  /\ \A p \in Place : PlaceRank[p] \in 0..9
  /\ \A c \in CleanupActive \cup CleanupEnd \cup {"none"} : CleanupRank[c] \in 0..4
  /\ \A r \in RunState : RunRank[r] \in 0..2
BY DEF Place, CleanupActive, CleanupEnd, RunState, Ended, CommandRank, PlaceRank,
       CleanupRank, RunRank

LEMMA ProgressBounded ==
  ASSUME Types, NEW v \in Views
  PROVE  /\ Progress(v) \in 0..17
         /\ PlaceRank[place[v]] \in 0..9 /\ CleanupRank[cleanup[v]] \in 0..4
         /\ RunRank[persistRun[v]] \in 0..2 /\ RunRank[removalRun[v]] \in 0..2
<1>1. /\ PlaceRank[place[v]] \in 0..9 /\ CleanupRank[cleanup[v]] \in 0..4
      /\ RunRank[persistRun[v]] \in 0..2 /\ RunRank[removalRun[v]] \in 0..2
  BY Ranks DEF Types, ViewsOK, TenantOK
<1>3. QED
  BY <1>1 DEF Progress

LEMMA ProgressBoundedNext ==
  ASSUME Types', NEW v \in Views
  PROVE  /\ Progress(v)' \in 0..17
         /\ PlaceRank[place'[v]] \in 0..9 /\ CleanupRank[cleanup'[v]] \in 0..4
         /\ RunRank[persistRun'[v]] \in 0..2 /\ RunRank[removalRun'[v]] \in 0..2
<1>1. /\ PlaceRank[place'[v]] \in 0..9 /\ CleanupRank[cleanup'[v]] \in 0..4
      /\ RunRank[persistRun'[v]] \in 0..2 /\ RunRank[removalRun'[v]] \in 0..2
  BY Ranks DEF Types, ViewsOK, TenantOK
<1>3. QED
  BY <1>1 DEF Progress

LEMMA DoneBounded ==
  ASSUME NEW some \in SUBSET (Views \X (1..17))
  PROVE  IsFiniteSet(some) /\ Cardinality(some) \in 0..17 * NumViews
<1>1. IsFiniteSet(Views) /\ Cardinality(Views) = NumViews
  BY SizeAssumption, FS_Interval DEF Views
<1>2. IsFiniteSet(1..17) /\ Cardinality(1..17) = 17
  <2>1. \A n \in Nat : IsFiniteSet(1..n) /\ Cardinality(1..n) = n
    BY FS_Interval
  <2>2. QED
    BY <2>1
<1>3. /\ IsFiniteSet(Views \X (1..17))
      /\ Cardinality(Views \X (1..17)) = NumViews * 17
  BY <1>1, <1>2, FS_Product
<1>4. IsFiniteSet(some) /\ Cardinality(some) <= NumViews * 17
  BY <1>3, FS_Subset
<1>5. QED
  BY <1>4, FS_CardinalityType, SizeAssumption

LEMMA DoneTyped ==
  /\ IsFiniteSet(Done) /\ Cardinality(Done) \in 0..17 * NumViews
  /\ IsFiniteSet(Done') /\ Cardinality(Done') \in 0..17 * NumViews
<1>1. Done \in SUBSET (Views \X (1..17)) /\ Done' \in SUBSET (Views \X (1..17))
  BY DEF Done
<1>2. QED
  BY <1>1, DoneBounded

(* No view falls back, and one gets further.                               *)
LEMMA DoneGrows ==
  ASSUME Types, Types', \A v \in Views : Progress(v) <= Progress(v)'
  PROVE  /\ Cardinality(Done) <= Cardinality(Done')
         /\ (\E v \in Views : Progress(v) < Progress(v)') =>
              Cardinality(Done) < Cardinality(Done')
<1>1. \A v \in Views : Progress(v) \in 0..17
  BY ProgressBounded
<1>2. \A v \in Views : Progress(v)' \in 0..17
  BY ProgressBoundedNext
<1>3. Done \in SUBSET Done'
  <2>1. ASSUME NEW c \in Done PROVE c \in Done'
    <3>1. c \in Views \X (1..17) /\ c[1] \in Views /\ c[2] \in 1..17 /\ c[2] <= Progress(c[1])
      BY DEF Done
    <3>2. c[2] <= Progress(c[1])'
      BY <1>1, <1>2, <3>1
    <3>3. QED
      BY <3>1, <3>2 DEF Done
  <2>2. QED
    BY <2>1
<1>4. /\ Cardinality(Done) <= Cardinality(Done')
      /\ Cardinality(Done) = Cardinality(Done') => Done = Done'
  BY <1>3, DoneTyped, FS_Subset
<1>5. ASSUME NEW v \in Views, Progress(v) < Progress(v)' PROVE Done # Done'
  <2>1. Progress(v)' \in 1..17
    BY <1>1, <1>2, <1>5
  <2>2. <<v, Progress(v)'>> \in Done'
    BY <2>1 DEF Done
  <2>3. <<v, Progress(v)'>> \notin Done
    BY <1>1, <1>2, <1>5 DEF Done
  <2>4. QED
    BY <2>2, <2>3
<1>6. QED
  BY <1>4, <1>5, DoneTyped


NotBack(v) ==
  /\ PlaceRank[place[v]] <= PlaceRank[place'[v]]
  /\ CleanupRank[cleanup[v]] <= CleanupRank[cleanup'[v]]
  /\ RunRank[persistRun[v]] <= RunRank[persistRun'[v]]
  /\ RunRank[removalRun[v]] <= RunRank[removalRun'[v]]
Further(v) ==
  \/ PlaceRank[place[v]] < PlaceRank[place'[v]]
  \/ CleanupRank[cleanup[v]] < CleanupRank[cleanup'[v]]
  \/ RunRank[persistRun[v]] < RunRank[persistRun'[v]]
  \/ RunRank[removalRun[v]] < RunRank[removalRun'[v]]

Same(v) ==
  /\ place'[v] = place[v] /\ cleanup'[v] = cleanup[v]
  /\ persistRun'[v] = persistRun[v] /\ removalRun'[v] = removalRun[v]

LEMMA ProgressGrows ==
  ASSUME Types, Types', NEW v \in Views, NotBack(v)
  PROVE  Progress(v) <= Progress(v)' /\ (Further(v) => Progress(v) < Progress(v)')
BY ProgressBounded, ProgressBoundedNext DEF Progress, NotBack, Further

LEMMA SameIsNotBack ==
  ASSUME Types, NEW v \in Views, Same(v)
  PROVE  NotBack(v) /\ Progress(v)' = Progress(v)
<1>1. /\ PlaceRank[place[v]] \in 0..9 /\ CleanupRank[cleanup[v]] \in 0..4
      /\ RunRank[persistRun[v]] \in 0..2 /\ RunRank[removalRun[v]] \in 0..2
  BY ProgressBounded
<1>3. QED
  BY <1>1 DEF Same, NotBack, Progress

(* One view gets further, the others stay where they are.                  *)
Advances(v) == NotBack(v) /\ Further(v) /\ \A w \in Views \ {v} : Same(w)

LEMMA MeasurementAdvances ==
  ASSUME Types, Types', ViewInv, NEW v \in Views,
         RecordStep(v) \/ ExceptionStep(v) \/ MoveStep(v), ~Report(v)
  PROVE  Advances(v) /\ UNCHANGED <<command, cancels, reported>>
<1>1. UNCHANGED <<command, cancels, reported>>
  BY DEF RecordStep, Recorded, Record, ExceptionStep, MoveStep, Admit, CheckAnswered,
     PersistAccepted, ShieldStep, Delivered, CancelledShield, commandVars, modelVars
<1>2. \A w \in Views \ {v} : Same(w)
  BY DEF Same, Types, ViewsOK, TenantOK, RecordStep, Recorded, Record, ExceptionStep,
     MaybeStarted, Settle, MoveStep, Admit, CheckAnswered, PersistAccepted,
     ShieldStep, Delivered, CancelledShield, tenantVars
<1>3. /\ PlaceRank[place[v]] < PlaceRank[place'[v]]
      /\ CleanupRank[cleanup[v]] <= CleanupRank[cleanup'[v]]
  <2>1. /\ CleanupRank[cleanup[v]] \in 0..4
        /\ \/ cleanup'[v] = cleanup[v]
           \/ cleanup[v] = "none" /\ cleanup'[v] = "reading"
    <3>1. cleanup'[v] = cleanup[v] \/ ShieldStep(v)
      BY DEF RecordStep, Recorded, ExceptionStep, MoveStep, Admit, CheckAnswered,
         PersistAccepted, Delivered, CancelledShield
    <3>2. ShieldStep(v) => cleanup[v] = "none" /\ cleanup'[v] = "reading"
      BY DEF ShieldStep, At, ViewInv, Cleaning, Unread, BeforeResult, Types, ViewsOK
    <3>3. QED
      BY <3>1, <3>2, ProgressBounded
  <2>2. CleanupRank[cleanup[v]] <= CleanupRank[cleanup'[v]]
    BY <2>1 DEF CleanupRank
  <2>3. CASE RecordStep(v)
    <3>1. place[v] \in {"starting", "polling", "shielding"} /\ place'[v] \in {"done", "finalizing"}
      BY <2>3 DEF RecordStep, Recorded, Record, Types, ViewsOK
    <3>2. QED
      BY <2>2, <3>1 DEF PlaceRank
  <2>4. CASE ExceptionStep(v)
    <3>1. place[v] \in Place \ Settled /\ place'[v] \in {"failed", "cancelled"}
      BY <2>4 DEF ExceptionStep, Settle, Types, ViewsOK
    <3>2. QED
      BY <2>2, <3>1 DEF PlaceRank, Place, Settled
  <2>5. CASE MoveStep(v)
    <3>1. \/ place[v] = "queued" /\ place'[v] = "checking"
          \/ place[v] = "checking" /\ place'[v] = "starting"
          \/ place[v] = "starting" /\ place'[v] = "polling"
          \/ place[v] = "polling" /\ place'[v] = "shielding"
          \/ place[v] = "delivering" /\ place'[v] \in {"done", "finalizing"}
          \/ place[v] = "shielding" /\ place'[v] = "awaiting"
      BY <2>5 DEF MoveStep, Admit, CheckAnswered, PersistAccepted, ShieldStep,
         Delivered, CancelledShield, At, Types, ViewsOK
    <3>2. QED
      BY <2>2, <3>1 DEF PlaceRank
  <2>6. QED
    BY <2>3, <2>4, <2>5
<1>4. /\ removalRun'[v] = removalRun[v]
      /\ \/ persistRun'[v] = persistRun[v]
         \/ persistRun[v] = "none" /\ persistRun'[v] = "running"
  <2>1. place[v] = "starting" => persistRun[v] = "none"
    BY DEF ViewInv, Data
  <2>2. QED
    BY <2>1 DEF RecordStep, Recorded, ExceptionStep, MaybeStarted, MoveStep, Admit,
       CheckAnswered, PersistAccepted, ShieldStep, Delivered, CancelledShield, At,
       tenantVars, Types, TenantOK
<1>5. /\ RunRank[persistRun[v]] <= RunRank[persistRun'[v]]
      /\ RunRank[removalRun[v]] <= RunRank[removalRun'[v]]
  <2>1. RunRank[persistRun[v]] \in 0..2 /\ RunRank[removalRun[v]] \in 0..2
    BY ProgressBounded
  <2>2. QED
    BY <1>4, <2>1 DEF RunRank
<1>7. QED
  BY <1>1, <1>2, <1>3, <1>5,
     ProgressBounded, ProgressBoundedNext
  DEF Advances, NotBack, Further

LEMMA CleanupAdvances ==
  ASSUME Types, Types', ViewInv, NEW v \in Views, CleanupStep(v)
  PROVE  Advances(v) /\ UNCHANGED <<command, cancels, reported>>
<1> USE DEF CleanupMoves, CleanupAt
<1>1. UNCHANGED <<command, cancels, reported, owner, persistRun, place>>
  BY DEF CleanupStep, CleanupReads, CleanupStarts, CleanupPolls, CleanupRaises,
     CleanupCancelled, modelVars
<1>2. \A w \in Views \ {v} : Same(w)
  BY <1>1 DEF Same, Types, ViewsOK, TenantOK, CleanupStep, CleanupReads, CleanupStarts,
     CleanupPolls, CleanupRaises, CleanupCancelled, MaybeStarted
<1>3. /\ \/ cleanup[v] = "reading" /\ cleanup'[v] = "posting"
         \/ cleanup[v] = "posting" /\ cleanup'[v] = "removing"
         \/ cleanup[v] \in CleanupActive /\ cleanup'[v] \in CleanupEnd
      /\ \/ removalRun'[v] = removalRun[v]
         \/ cleanup[v] = "posting" /\ removalRun'[v] = "running"
  BY DEF ViewInv, Cleaning, Types, ViewsOK, TenantOK, CommandOK, CleanupStep,
     CleanupReads, CleanupStarts, CleanupPolls, CleanupRaises, CleanupCancelled,
     MaybeStarted, CleanupActive, CleanupEnd
<1>4. CleanupRank[cleanup[v]] < CleanupRank[cleanup'[v]]
  BY <1>3 DEF CleanupRank, CleanupActive, CleanupEnd
<1>5. RunRank[removalRun[v]] <= RunRank[removalRun'[v]]
  <2>1. cleanup[v] = "posting" => removalRun[v] = "none"
    BY DEF ViewInv, Cleaning
  <2>2. RunRank[removalRun[v]] \in 0..2
    BY ProgressBounded
  <2>3. QED
    BY <1>3, <2>1, <2>2 DEF RunRank
<1>6. /\ PlaceRank[place[v]] <= PlaceRank[place'[v]]
      /\ RunRank[persistRun[v]] <= RunRank[persistRun'[v]]
  BY <1>1, ProgressBounded
<1>7. QED
  BY <1>1, <1>2, <1>4, <1>5, <1>6,
     ProgressBounded, ProgressBoundedNext
  DEF Advances, NotBack, Further

LEMMA TenantAdvances ==
  ASSUME Types, Types', NEW v \in Views, RunEnds(v)
  PROVE  Advances(v) /\ UNCHANGED <<command, cancels, reported>>
<1>1. UNCHANGED <<command, cancels, reported, place, cleanup>>
  BY DEF RunEnds, PersistRunEnds, RemovalRunEnds, viewVars, modelVars,
     commandVars
<1>2. \A w \in Views \ {v} : Same(w)
  BY <1>1 DEF Same, Types, TenantOK, RunEnds, PersistRunEnds,
     RemovalRunEnds
<1>3. /\ PlaceRank[place[v]] <= PlaceRank[place'[v]]
      /\ CleanupRank[cleanup[v]] <= CleanupRank[cleanup'[v]]
      /\ RunRank[persistRun[v]] \in 0..2 /\ RunRank[removalRun[v]] \in 0..2
  BY <1>1, ProgressBounded
<1>5. CASE \E state \in {"completed", "failed"} : PersistRunEnds(v, state)
  <2>1. /\ persistRun[v] = "running" /\ persistRun'[v] \in {"completed", "failed"}
        /\ removalRun' = removalRun
    BY <1>5 DEF PersistRunEnds, Types, TenantOK
  <2>3. RunRank[persistRun[v]] < RunRank[persistRun'[v]]
    BY <2>1 DEF RunRank
  <2>4. QED
    BY <1>1, <1>2, <1>3, <2>1, <2>3,
     ProgressBounded, ProgressBoundedNext
  DEF Advances, NotBack, Further
<1>6. CASE \E state \in {"completed", "failed"} : RemovalRunEnds(v, state)
  <2>1. /\ removalRun[v] = "running" /\ removalRun'[v] \in {"completed", "failed"}
        /\ persistRun' = persistRun
    BY <1>6 DEF RemovalRunEnds, Types, TenantOK
  <2>3. RunRank[removalRun[v]] < RunRank[removalRun'[v]]
    BY <2>1 DEF RunRank
  <2>4. QED
    BY <1>1, <1>2, <1>3, <2>1, <2>3,
     ProgressBounded, ProgressBoundedNext
  DEF Advances, NotBack, Further
<1>7. QED
  BY <1>5, <1>6 DEF RunEnds


LEMMA OneAdvances ==
  ASSUME Types, Types', NEW v \in Views, Advances(v)
  PROVE  Cardinality(Done) < Cardinality(Done')
<1>1. ASSUME NEW w \in Views PROVE Progress(w) <= Progress(w)'
  <2>1. NotBack(w)
    BY SameIsNotBack DEF Advances
  <2>2. QED
    BY <2>1, ProgressGrows
<1>2. Progress(v) < Progress(v)'
  BY ProgressGrows DEF Advances
<1>3. QED
  BY <1>1, <1>2, DoneGrows

LEMMA AllStandStill ==
  ASSUME Types, Types', UNCHANGED <<tenantVars, viewVars>>
  PROVE  Cardinality(Done) = Cardinality(Done')
<1>1. ASSUME NEW w \in Views PROVE Progress(w)' = Progress(w)
  BY SameIsNotBack DEF Same, tenantVars, viewVars
<1>2. Done' = Done
  BY <1>1 DEF Done
<1>3. QED
  BY <1>2

LEMMA FinalizeCounts ==
  ASSUME ModelsOK, NEW m \in Models, Finalize(m)
  PROVE  Len(reported') = Len(reported) + 1 /\ Len(reported) \in Nat
BY AppendProperties, LenProperties DEF Finalize, ModelsOK

(* The one step back, for a report.                                        *)
LEMMA ReportAdvances ==
  ASSUME Types, Types', NEW v \in Views, Report(v)
  PROVE  /\ Len(reported') = Len(reported) + 1
         /\ Cardinality(Done') = Cardinality(Done) - 1
         /\ UNCHANGED <<command, cancels>>
<1>1. /\ place[v] = "finalizing" /\ place'[v] = "delivering"
      /\ \A w \in Views \ {v} : place'[w] = place[w]
      /\ UNCHANGED <<tenantVars, cleanup, command, cancels>>
  BY DEF Report, At, Types, ViewsOK, commandVars
<1>2. Len(reported') = Len(reported) + 1
  <2>1. toReport[v] \in SUBSET Models
    BY DEF Types, ModelsOK
  <2>2. QED
    BY <2>1, FinalizeCounts DEF Report, Types
<1>3. Progress(v) \in 1..17 /\ Progress(v)' = Progress(v) - 1
  <2>1. PlaceRank[place[v]] = 8 /\ PlaceRank[place'[v]] = 7
    BY <1>1 DEF PlaceRank
  <2>3. /\ CleanupRank[cleanup'[v]] = CleanupRank[cleanup[v]]
        /\ RunRank[persistRun'[v]] = RunRank[persistRun[v]]
        /\ RunRank[removalRun'[v]] = RunRank[removalRun[v]]
    BY <1>1 DEF tenantVars
  <2>4. QED
    BY <2>1, <2>3, ProgressBounded DEF Progress
<1>4. ASSUME NEW w \in Views \ {v} PROVE Progress(w)' = Progress(w)
  <2>1. Same(w)
    BY <1>1 DEF Same, tenantVars
  <2>2. QED
    BY <2>1, SameIsNotBack
<1>5. Done' = Done \ {<<v, Progress(v)>>}
  <2>1. ASSUME NEW w \in Views, NEW k \in 1..17
        PROVE  <<w, k>> \in Done' <=> <<w, k>> \in Done /\ <<w, k>> # <<v, Progress(v)>>
    <3>1. <<w, k>> \in Done' <=> k <= Progress(w)'
      BY DEF Done
    <3>2. <<w, k>> \in Done <=> k <= Progress(w)
      BY DEF Done
    <3>3. QED
      BY <1>3, <1>4, <3>1, <3>2
  <2>2. Done \in SUBSET (Views \X (1..17)) /\ Done' \in SUBSET (Views \X (1..17))
    BY DEF Done
  <2>3. ASSUME NEW c \in Views \X (1..17)
        PROVE  c \in Done' <=> c \in Done /\ c # <<v, Progress(v)>>
    <3>1. c = <<c[1], c[2]>> /\ c[1] \in Views /\ c[2] \in 1..17
      OBVIOUS
    <3>2. QED
      BY <2>1, <3>1
  <2>4. QED
    BY <2>2, <2>3
<1>6. <<v, Progress(v)>> \in Done
  BY <1>3 DEF Done
<1>7. Cardinality(Done') = Cardinality(Done) - 1
  BY <1>5, <1>6, DoneTyped, FS_RemoveElement
<1>8. QED
  BY <1>1, <1>2, <1>7

LEMMA CommandAdvances ==
  ASSUME Types, Types', Placed, CommandStep \/ Cancel
  PROVE  /\ Cardinality(Done) <= Cardinality(Done')
         /\ CommandRank[command] <= CommandRank[command']
         /\ cancels' >= cancels /\ Len(reported') >= Len(reported)
         /\ \/ CommandRank[command] < CommandRank[command']
            \/ cancels' > cancels \/ Len(reported') > Len(reported)
<1>1. /\ CommandRank[command] \in 0..3 /\ cancels \in 0..MaxCancels
      /\ Len(reported) \in Nat
  BY Ranks, LenProperties DEF Types, CommandOK, ModelsOK
<1>2. CASE CreateTasks
  <2>1. ASSUME NEW v \in Views PROVE Progress(v) <= Progress(v)'
    <3>1. /\ place[v] = "absent" /\ place'[v] = "queued" /\ cleanup'[v] = cleanup[v]
          /\ UNCHANGED tenantVars
      BY <1>2 DEF CreateTasks, Placed
    <3>2. PlaceRank[place[v]] <= PlaceRank[place'[v]]
      BY <3>1 DEF PlaceRank
    <3>3. NotBack(v)
      BY <3>1, <3>2, ProgressBounded DEF NotBack, tenantVars
    <3>4. QED
      BY <3>3, ProgressGrows
  <2>2. Cardinality(Done) <= Cardinality(Done')
    BY <2>1, DoneGrows
  <2>3. /\ command = "preparing" /\ command' = "gathering" /\ UNCHANGED <<cancels, reported>>
    BY <1>2 DEF CreateTasks, modelVars
  <2>4. QED
    BY <1>1, <2>2, <2>3 DEF CommandRank
<1>3. CASE ReportEmpty
  <2>1. UNCHANGED <<tenantVars, viewVars, command, cancels>>
    BY <1>3 DEF ReportEmpty, commandVars
  <2>2. Len(reported') = Len(reported) + 1
    BY <1>3, FinalizeCounts DEF ReportEmpty, Types
  <2>3. Cardinality(Done) = Cardinality(Done')
    BY <2>1, AllStandStill
  <2>4. QED
    BY <1>1, <2>1, <2>2, <2>3, DoneTyped
<1>4. CASE PrepareRaises \/ GatherReturns \/ GatherRaises \/ Drained \/ Cancel
  <2>1. UNCHANGED <<tenantVars, viewVars, reported>>
    BY <1>4 DEF PrepareRaises, GatherReturns, GatherRaises, Drained, Cancel, modelVars
  <2>2. \/ command = "preparing" /\ command' = "raised" /\ cancels' = cancels
        \/ command = "gathering" /\ command' \in {"returned", "draining"} /\ cancels' = cancels
        \/ command = "draining" /\ command' = "raised" /\ cancels' = cancels
        \/ command' = command /\ cancels' = cancels + 1
        \/ command = "gathering" /\ command' = "draining" /\ cancels' = cancels + 1
    BY <1>4 DEF PrepareRaises, GatherReturns, GatherRaises, Drained, Cancel
  <2>3. Cardinality(Done) = Cardinality(Done')
    BY <2>1, AllStandStill
  <2>4. QED
    BY <1>1, <2>1, <2>2, <2>3, DoneTyped DEF CommandRank
<1>5. QED
  BY <1>2, <1>3, <1>4 DEF CommandStep

(* Others persist or remove something. *)
OthersAct == \E v \in Views : OthersStep(v)

LEMMA WorkStays ==
  ASSUME Inv, Inv', OthersAct
  PROVE  Work' = Work
<1>1. UNCHANGED <<place, cleanup, persistRun, removalRun, command, cancels, reported>>
  BY DEF OthersAct, OthersStep, viewVars, modelVars, commandVars
<1>2. \A v \in Views : Progress(v)' = Progress(v)
  BY <1>1, SameIsNotBack DEF Inv, Same
<1>3. Done' = Done
  BY <1>2 DEF Done
<1>4. QED
  BY <1>1, <1>3 DEF Work

LEMMA WorkGrows ==
  ASSUME Inv, Inv', Next, ~OthersAct, ~UNCHANGED vars
  PROVE  Work' > Work
<1> USE DEF Inv, Control
<1>1. /\ CommandRank[command] \in Nat /\ CommandRank[command'] \in Nat
      /\ cancels \in Nat /\ cancels' \in Nat
      /\ Len(reported) \in Nat /\ Len(reported') \in Nat
      /\ Cardinality(Done) \in Nat /\ Cardinality(Done') \in Nat
  <2>1. CommandRank[command] \in 0..3 /\ CommandRank[command'] \in 0..3
    BY Ranks DEF Types, CommandOK
  <2>2. cancels \in Nat /\ cancels' \in Nat
    BY DEF Types, CommandOK
  <2>3. Len(reported) \in Nat /\ Len(reported') \in Nat
    BY LenProperties DEF Types, ModelsOK
  <2>4. QED
    BY <2>1, <2>2, <2>3, DoneTyped
<1>2. CASE CommandStep \/ Cancel
  <2>1. /\ Cardinality(Done) <= Cardinality(Done')
        /\ CommandRank[command] <= CommandRank[command']
        /\ cancels' >= cancels /\ Len(reported') >= Len(reported)
        /\ \/ CommandRank[command] < CommandRank[command']
           \/ cancels' > cancels \/ Len(reported') > Len(reported)
    BY <1>2, CommandAdvances
  <2> HIDE DEF Inv, Control
  <2>2. CommandRank[command] + cancels + 2 * Len(reported)
          < CommandRank[command'] + cancels' + 2 * Len(reported')
    BY <1>1, <2>1
  <2>3. QED
    BY <1>1, <2>1, <2>2 DEF Work
<1>3. ASSUME NEW v \in Views, MeasurementStep(v) \/ CleanupStep(v) \/ RunEnds(v)
      PROVE  Work' > Work
  <2>1. CASE Report(v)
    BY <1>1, <2>1, ReportAdvances DEF Work
  <2>2. CASE ~Report(v)
    <3>1. Advances(v) /\ UNCHANGED <<command, cancels, reported>>
      BY <1>3, <2>2, StepShapes, MeasurementAdvances, CleanupAdvances, TenantAdvances
    <3>2. Cardinality(Done) < Cardinality(Done')
      BY <3>1, OneAdvances
    <3>3. QED
      BY <1>1, <3>1, <3>2 DEF Work
  <2>3. QED
    BY <2>1, <2>2
<1>4. QED
  BY <1>2, <1>3 DEF Next, Terminated, TenantStep, OthersAct

LEMMA WorkBounded == ASSUME Inv PROVE Work \in 0..MostWork
<1>1. Len(reported) \in 0..NumModels
  <2>1. IsFiniteSet(Models) /\ Cardinality(Models) = NumModels
    BY SizeAssumption, FS_Interval DEF Models
  <2>2. /\ Len(reported) \in Nat /\ reported \in [1..Len(reported) -> Models]
        /\ \A k, l \in 1..Len(reported) : reported[k] = reported[l] => k = l
    BY LenProperties DEF Inv, ModelInv, Reporting, Types, ModelsOK
  <2>3. reported \in Injection(1..Len(reported), Models)
    BY <2>2 DEF Injection, IsInjective
  <2>4. Cardinality(1..Len(reported)) <= NumModels
    BY <2>1, <2>3, FS_Injection
  <2>5. Cardinality(1..Len(reported)) = Len(reported)
    BY <2>2, FS_Interval
  <2>6. QED
    BY <2>2, <2>4, <2>5
<1>2. CommandRank[command] \in 0..3 /\ cancels \in 0..MaxCancels
  BY Ranks DEF Inv, Types, CommandOK
<1>3. QED
  BY <1>1, <1>2, DoneTyped, SizeAssumption, CancelAssumption DEF Work, MostWork

(* Every step of the command, of its measurements and of the runs it       *)
(* started is work done, and there is only so much of it: at most 17 steps *)
(* for each view, 2 for each model, 3 of the command and one for each      *)
(* cancellation, whatever others do in between.  As the command is never   *)
(* stuck, it ends when what can go on does (_measure_dependencies).        *)
THEOREM MeasurementsTakeBoundedSteps ==
  Spec => /\ [](Work \in 0..MostWork)
          /\ [][IF OthersAct THEN Work' = Work ELSE Work' > Work]_vars
<1>1. Inv => Work \in 0..MostWork
  BY WorkBounded
<1>2. Inv /\ Inv' /\ [Next]_vars =>
        [IF OthersAct THEN Work' = Work ELSE Work' > Work]_vars
  BY WorkGrows, WorkStays
<1>3. QED
  BY <1>1, <1>2, InvHolds, PTL DEF Spec

=============================================================================
