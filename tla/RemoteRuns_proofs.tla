--------------------------- MODULE RemoteRuns_proofs ---------------------------
(***************************************************************************)
(* Theorems about RemoteRuns for every batch size, concurrency limit and   *)
(* number of cancellations.  RemoteRuns implements BatchExecution, so the  *)
(* theorems of BatchExecution_proofs hold of it as they stand; what the    *)
(* results say of the runs on the tenant is proved here.                   *)
(***************************************************************************)
EXTENDS RemoteRuns, BatchExecution_proofs

-----------------------------------------------------------------------------
(* A batch of remote runs is a batch.                                      *)

LEMMA OutcomeOfType == \A s \in Status : OutcomeOf(s) \in Outcome
  BY DEF Status, OutcomeOf, Outcome

LEMMA ReturnIsStep ==
  ASSUME NEW i \in Items, NEW s \in Status, Return(i, s)
  PROVE  ItemStep(i)
<1>1. OutcomeOf(s) \in Outcome
  BY OutcomeOfType
<1>2. OperationReturns(i, OutcomeOf(s))
  BY DEF Return
<1>3. QED
  BY <1>1, <1>2 DEF ItemStep, OperationStep

(* What an operation does between two awaits is a step of its item, or     *)
(* none of the batch.                                                      *)
LEMMA RunIsItemStep ==
  ASSUME NEW i \in Items, AdmitRun(i) \/ ClientStep(i) \/ RunCancelled(i)
  PROVE  ItemStep(i) \/ UNCHANGED vars
<1>1. CASE AdmitRun(i)
  BY <1>1 DEF AdmitRun, ItemStep
<1>2. CASE MonitorAnswers(i)
  BY <1>2, ReturnIsStep DEF MonitorAnswers, Status
<1>3. CASE StartAnswered(i)
  BY <1>3, ReturnIsStep DEF StartAnswered, Status
<1>4. CASE PollAnswered(i)
  <2>1. run[i] \in Status /\ Return(i, run[i])
    BY <1>4 DEF PollAnswered, Status
  <2>2. QED
    BY <2>1, ReturnIsStep
<1>5. CASE PollTimesOut(i)
  BY <1>5, ReturnIsStep DEF PollTimesOut, Status
<1>6. CASE RequestRaises(i)
  BY <1>6 DEF RequestRaises, ItemStep, OperationStep, Failure
<1>7. CASE RunCancelled(i)
  BY <1>7 DEF RunCancelled, ItemStep, Cancellation
<1>8. QED
  BY <1>1, <1>2, <1>3, <1>4, <1>5, <1>6, <1>7 DEF ClientStep

LEMMA RunsStepIsBatchStep == RunsNext => [Next]_vars
<1> SUFFICES ASSUME RunsNext PROVE [Next]_vars
  OBVIOUS
<1>1. CASE BatchStep
  BY <1>1 DEF BatchStep, Next, ItemStep
<1>2. ASSUME NEW i \in Items, TenantStep(i) PROVE UNCHANGED vars
  BY <1>2 DEF TenantStep
<1>3. ASSUME NEW i \in Items, AdmitRun(i) \/ ClientStep(i) \/ RunCancelled(i)
      PROVE  [Next]_vars
  BY <1>3, RunIsItemStep DEF Next
<1>4. CASE Terminated
  BY <1>4 DEF Next
<1>5. QED
  BY <1>1, <1>2, <1>3, <1>4 DEF RunsNext

(* A batch of runs takes the steps of BatchExecution by the shape of its   *)
(* definitions, so what is proved of a batch can be used here.             *)
LEMMA RunsAreBatches == RunsSpec => Spec
<1>1. RunsInit => Init
  BY DEF RunsInit
<1>2. [RunsNext]_allVars => [Next]_vars
  BY RunsStepIsBatchStep DEF allVars
<1>3. QED
  BY <1>1, <1>2, PTL DEF RunsSpec, Spec

-----------------------------------------------------------------------------
(* Types.                                                                  *)

RunTypes ==
  /\ kind \in {"start", "remove"}
  /\ stage \in [Items -> Stage]
  /\ run \in [Items -> Run]
  /\ status \in [Items -> Status \cup {"none"}]

LEMMA RunTypesStep == ASSUME RunTypes, [RunsNext]_allVars PROVE RunTypes'
<1> USE DEF RunTypes, Stage, Run, Status
<1>1. ASSUME NEW i \in Items, TenantStep(i) PROVE RunTypes'
  BY <1>1 DEF TenantStep
<1>2. ASSUME NEW i \in Items, AdmitRun(i) PROVE RunTypes'
  BY <1>2 DEF AdmitRun
<1>3. ASSUME NEW i \in Items, NEW s \in Status, Return(i, s) PROVE RunTypes'
  BY <1>3 DEF Return
<1>4. ASSUME NEW i \in Items, ClientStep(i) PROVE RunTypes'
  <2>1. CASE MonitorAnswers(i)
    BY <1>3, <2>1 DEF MonitorAnswers
  <2>2. CASE StartAnswered(i)
    BY <1>3, <2>2 DEF StartAnswered
  <2>3. CASE PollAnswered(i)
    BY <1>3, <2>3 DEF PollAnswered
  <2>4. CASE PollTimesOut(i)
    BY <1>3, <2>4 DEF PollTimesOut
  <2>5. CASE RequestRaises(i)
    BY <2>5 DEF RequestRaises, runVars
  <2>6. QED
    BY <1>4, <2>1, <2>2, <2>3, <2>4, <2>5 DEF ClientStep
<1>5. ASSUME UNCHANGED runVars PROVE RunTypes'
  BY <1>5 DEF runVars
<1>6. QED
  BY <1>1, <1>2, <1>4, <1>5 DEF RunsNext, BatchStep, RunCancelled, allVars

(* RunsTypeOK: every variable keeps its type, those of the batch included. *)
THEOREM RunsTypeCorrect == RunsSpec => []RunsTypeOK
<1>1. RunsInit => RunTypes
  BY DEF RunsInit, RunTypes, Stage, Run
<1>2. RunTypes /\ [RunsNext]_allVars => RunTypes'
  BY RunTypesStep
<1>3. RunsSpec => []RunTypes
  BY <1>1, <1>2, PTL DEF RunsSpec
<1>4. RunTypes /\ TypeOK => RunsTypeOK
  BY DEF RunTypes, RunsTypeOK
<1>5. RunsSpec => Spec
  BY RunsAreBatches
<1>6. QED
  BY <1>3, <1>4, <1>5, TypeCorrect, PTL

-----------------------------------------------------------------------------
(* What is known of an item's run wherever its operation is suspended.     *)

Past == {"completing", "reporting", "delivering", "done"}

(* No request before the operation runs, no result before it returned; a   *)
(* start that was posted is on its way or answered, and a run that is      *)
(* polled was accepted.                                                    *)
AccountedFor(i) ==
  /\ task[i] \in {"absent", "queued"} => run[i] = "none"
  /\ task[i] \in {"absent", "queued", "running"} => status[i] = "none"
  /\ task[i] \in Past => status[i] # "none"
  /\ stage[i] = "reading" /\ task[i] = "running" => run[i] = "none"
  /\ stage[i] = "posting" => run[i] # "none"
  /\ stage[i] = "polling" => run[i] \in {"running", "completed", "failed"}
  /\ Truthful(i)

Accounted == \A i \in Items : AccountedFor(i)

(* The command, the reports and the caller's cancellations move tasks that *)
(* exist only past their operation.                                        *)
LEMMA BatchStepMoves ==
  ASSUME TypeOK, Placed, BatchStep, NEW i \in Items
  PROVE  \/ task'[i] = task[i]
         \/ task[i] = "absent" /\ task'[i] = "queued"
         \/ task[i] \in Past /\ task'[i] \in Past \cup {"failed"}
<1> USE DEF TypeOK, itemVars
<1>1. ASSUME NEW j \in Items, ReportStep(j)
      PROVE  /\ task[j] \in Past /\ task'[j] \in Past \cup {"failed"}
             /\ i # j => task'[i] = task[i]
  BY <1>1 DEF ReportStep, AcquireLock, ProgressReturns, DeliveryReturns,
     CallbackRaises, Settle, Past
<1>2. CASE CreateTasks
  BY <1>2 DEF CreateTasks, Placed
<1>3. CASE CommandStep /\ ~CreateTasks
  BY <1>3 DEF CommandStep, Start, Announce, GatherReturns, GatherRaises, Drained,
     Finish, ReportFails, AnnounceFails
<1>4. CASE CancelTasks \/ CancelCommand
  BY <1>4 DEF CancelTasks, CancelCommand
<1>5. QED
  BY <1>1, <1>2, <1>3, <1>4 DEF BatchStep

(* What an operation's own steps leave alone, and that it was running.     *)
LEMMA ReturnMoves ==
  ASSUME TypeOK, RunTypes, NEW i \in Items, NEW s \in Status, Return(i, s)
  PROVE  /\ task[i] = "running" /\ task'[i] \in Past
         /\ status' = [status EXCEPT ![i] = s]
         /\ UNCHANGED <<stage, run>>
         /\ \A j \in Items \ {i} : task'[j] = task[j]
  BY DEF Return, OperationReturns, TypeOK, Past

LEMMA ReturnAccounted ==
  ASSUME TypeOK, RunTypes, Accounted, NEW i \in Items, NEW s \in Status,
         Return(i, s),
         s \in {"completed", "failed"} => run[i] = s,
         s \in {"start_failed", "already_absent"} => run[i] \in {"none", "refused"}
  PROVE  Accounted'
<1>1. AccountedFor(i)'
  BY ReturnMoves DEF Accounted, AccountedFor, Truthful, Past, RunTypes, Status
<1>2. ASSUME NEW j \in Items \ {i} PROVE AccountedFor(j)'
  BY <1>2, ReturnMoves DEF Accounted, AccountedFor, Truthful, RunTypes
<1>3. QED
  BY <1>1, <1>2 DEF Accounted

LEMMA ClientAccounted ==
  ASSUME TypeOK, RunTypes, Accounted, NEW i \in Items, ClientStep(i)
  PROVE  Accounted'
<1> USE DEF InStage, Status
<1>1. AccountedFor(i)
  BY DEF Accounted
<1>2. CASE MonitorAnswers(i)
  <2>1. run[i] = "none" /\ task[i] = "running"
    BY <1>1, <1>2 DEF MonitorAnswers, AccountedFor
  <2>2. ASSUME Return(i, "start_failed") \/ Return(i, "already_absent")
        PROVE  Accounted'
    BY <2>1, <2>2, ReturnAccounted
  <2>3. ASSUME stage' = [stage EXCEPT ![i] = "posting"],
               run' = [run EXCEPT ![i] = "requested"],
               UNCHANGED <<vars, kind, status>>
        PROVE  Accounted'
    BY <2>1, <2>3 DEF Accounted, AccountedFor, Truthful, RunTypes, vars, itemVars, Past
  <2>4. QED
    BY <1>2, <2>2, <2>3 DEF MonitorAnswers
<1>3. CASE StartAnswered(i)
  <2>1. task[i] = "running" /\ run[i] \notin {"none", "requested"}
    BY <1>1, <1>3 DEF StartAnswered, AccountedFor
  <2>2. CASE run[i] = "refused"
    BY <1>3, <2>2, ReturnAccounted DEF StartAnswered
  <2>3. CASE run[i] # "refused"
    <3>1. run[i] \in {"running", "completed", "failed"}
      BY <2>1, <2>3 DEF RunTypes, Run
    <3>2. /\ stage' = [stage EXCEPT ![i] = "polling"]
          /\ UNCHANGED <<vars, kind, run, status>>
      BY <1>3, <2>3 DEF StartAnswered
    <3>3. QED
      BY <3>1, <3>2 DEF Accounted, AccountedFor, Truthful, RunTypes, vars, itemVars
  <2>4. QED
    BY <2>2, <2>3
<1>4. CASE PollAnswered(i)
  BY <1>4, ReturnAccounted DEF PollAnswered
<1>5. CASE PollTimesOut(i)
  BY <1>5, ReturnAccounted DEF PollTimesOut
<1>6. CASE RequestRaises(i)
  <2>1. task' = [task EXCEPT ![i] = "failed"] /\ UNCHANGED runVars
    BY <1>6 DEF RequestRaises, OperationRaises, Settle
  <2>2. QED
    BY <2>1 DEF Accounted, AccountedFor, Truthful, runVars, TypeOK, Past
<1>7. QED
  BY <1>2, <1>3, <1>4, <1>5, <1>6 DEF ClientStep

LEMMA AccountedStep ==
  ASSUME TypeOK, Placed, RunTypes, Accounted, [RunsNext]_allVars
  PROVE  Accounted'
<1>1. ASSUME NEW i \in Items, TenantStep(i) PROVE Accounted'
  BY <1>1 DEF TenantStep, Accounted, AccountedFor, Truthful, RunTypes, vars, itemVars
<1>2. ASSUME NEW i \in Items, AdmitRun(i) PROVE Accounted'
  <2>1. /\ task[i] = "queued" /\ task' = [task EXCEPT ![i] = "running"]
        /\ UNCHANGED status
        /\ \/ /\ stage' = [stage EXCEPT ![i] = "posting"]
              /\ run' = [run EXCEPT ![i] = "requested"]
           \/ /\ stage' = [stage EXCEPT ![i] = "reading"]
              /\ run' = run
    BY <1>2 DEF AdmitRun, Admit
  <2>2. status[i] = "none" /\ run[i] = "none"
    BY <2>1 DEF Accounted, AccountedFor
  <2>3. AccountedFor(i)'
    BY <2>1, <2>2 DEF AccountedFor, Truthful, TypeOK, RunTypes, Past
  <2>4. ASSUME NEW j \in Items \ {i} PROVE AccountedFor(j)'
    BY <2>1, <2>4 DEF Accounted, AccountedFor, Truthful, TypeOK, RunTypes
  <2>5. QED
    BY <2>3, <2>4 DEF Accounted
<1>3. ASSUME NEW i \in Items, ClientStep(i) PROVE Accounted'
  BY <1>3, ClientAccounted
<1>4. ASSUME NEW i \in Items, RunCancelled(i) PROVE Accounted'
  <2>1. task' = [task EXCEPT ![i] = "cancelled"] /\ UNCHANGED runVars
    BY <1>4 DEF RunCancelled, CancelledAt, Settle
  <2>2. QED
    BY <2>1 DEF Accounted, AccountedFor, Truthful, runVars, TypeOK, Past
<1>5. CASE BatchStep
  <2>1. UNCHANGED runVars
    BY <1>5 DEF BatchStep
  <2>2. ASSUME NEW i \in Items PROVE AccountedFor(i)'
    BY <1>5, <2>1, BatchStepMoves DEF Accounted, AccountedFor, Truthful, runVars, Past
  <2>3. QED
    BY <2>2 DEF Accounted
<1>6. CASE UNCHANGED <<vars, runVars>>
  BY <1>6 DEF vars, itemVars, runVars, Accounted, AccountedFor, Truthful
<1>7. QED
  BY <1>1, <1>2, <1>3, <1>4, <1>5, <1>6 DEF RunsNext, Terminated, allVars

LEMMA AccountedCorrect == RunsSpec => [](RunTypes /\ Accounted)
<1>1. RunsInit => Accounted
  BY DEF RunsInit, Init, Accounted, AccountedFor, Truthful, Past
<1>2. RunsSpec => Spec
  BY RunsAreBatches
<1>3. RunsTypeOK => RunTypes
  BY DEF RunsTypeOK, RunTypes
<1>4. TypeOK /\ Placed /\ RunTypes /\ Accounted /\ [RunsNext]_allVars => Accounted'
  BY AccountedStep
<1>5. QED
  BY <1>1, <1>2, <1>3, <1>4, TypeCorrect, PlacedCorrect, RunsTypeCorrect, PTL
     DEF RunsSpec

(* ResultsAreTruthful: whatever the tenant answers and whenever an item is *)
(* cancelled or times out, a result tells what became of its run.          *)
THEOREM ResultsTellTheTruth == RunsSpec => []ResultsAreTruthful
<1>1. Accounted => ResultsAreTruthful
  BY DEF Accounted, AccountedFor, ResultsAreTruthful
<1>2. QED
  BY <1>1, AccountedCorrect, PTL

(* LiveRunsAreKnown: a returned batch names every run that may still be    *)
(* going, and beyond those and the items that raised, no more runs are     *)
(* going than max_concurrency.                                             *)
THEOREM LiveRunsCanBeTraced == RunsSpec => []LiveRunsAreKnown
<1>1. ASSUME TypeOK, RunTypes, Accounted, ReturnIsComplete, ConcurrencyBound
      PROVE  LiveRunsAreKnown
  <2>1. ASSUME NEW i \in Items, Live(i), task[i] \in Past
        PROVE  status[i] = "timed_out" /\ status[i] \in WithLogId
    BY <1>1, <2>1 DEF Accounted, AccountedFor, Truthful, Live, WithLogId, RunTypes,
       Status
  <2>2. ASSUME command = "returned", NEW i \in Items, Live(i)
        PROVE  status[i] = "timed_out" /\ status[i] \in WithLogId
    BY <1>1, <2>1, <2>2 DEF ReturnIsComplete, Past
  <2> DEFINE Unseen == {i \in Items : Live(i) /\ status[i] # "timed_out"
                                       /\ task[i] \notin {"failed", "cancelled"}}
  <2>3. ASSUME NEW i \in Unseen PROVE i \in Running
    <3>1. task[i] \notin Past
      BY <2>1, <2>3
    <3>2. task[i] \notin {"absent", "queued"}
      BY <1>1, <2>3 DEF Accounted, AccountedFor, Live
    <3>3. QED
      BY <1>1, <2>3, <3>1, <3>2 DEF TypeOK, TaskPlace, Running, Past
  <2>4. Unseen \in SUBSET Running
    BY <2>3
  <2>5. /\ Cardinality(Unseen) <= Cardinality(Running)
        /\ Cardinality(Unseen) \in Nat
        /\ Cardinality(Running) \in Nat
    BY <2>4, RunningFinite, FS_Subset, FS_CardinalityType
  <2>6. Cardinality(Unseen) <= MaxConcurrency
    BY <1>1, <2>5 DEF ConcurrencyBound, TypeOK
  <2>7. QED
    BY <2>2, <2>6 DEF LiveRunsAreKnown
<1>2. RunsSpec => Spec
  BY RunsAreBatches
<1>3. QED
  BY <1>1, <1>2, TypeCorrect, AccountedCorrect, ReturnsAreComplete,
     ConcurrencyIsBounded, PTL

(* NoStartWhileDraining: a batch that failed, was cancelled or ended asks  *)
(* the tenant for no further run.                                          *)
THEOREM NothingStartsWhileDraining == RunsSpec => NoStartWhileDraining
<1>1. ASSUME TypeOK, Placed, RunTypes, [RunsNext]_allVars,
             command \in {"draining", "closing"} \cup Ended,
             NEW i \in Items, run[i] = "none"
      PROVE  run'[i] = "none"
  <2>1. Unfinished \subseteq cancelling
    BY <1>1 DEF Placed, NoOrphans
  <2>2. ASSUME NEW j \in Items PROVE ~AdmitRun(j)
    BY <2>1, <2>2 DEF AdmitRun, Admit, Unfinished, Settled
  <2>3. ASSUME NEW j \in Items PROVE ~InStage(j, stage[j])
    BY <2>1, <2>3 DEF InStage, Unfinished, Settled
  <2>4. ASSUME NEW j \in Items, ClientStep(j) PROVE FALSE
    BY <2>3, <2>4 DEF ClientStep, MonitorAnswers, StartAnswered, PollAnswered,
       PollTimesOut, RequestRaises, InStage
  <2>5. ASSUME NEW j \in Items, TenantStep(j) PROVE run'[i] = "none"
    BY <1>1, <2>5 DEF TenantStep, RunTypes
  <2>6. CASE UNCHANGED run
    BY <1>1, <2>6
  <2>7. QED
    BY <1>1, <2>2, <2>4, <2>5, <2>6 DEF RunsNext, BatchStep, RunCancelled, runVars,
       allVars
<1>2. TypeOK /\ Placed /\ RunTypes /\ [RunsNext]_allVars =>
        [(command \in {"draining", "closing"} \cup Ended) =>
           \A i \in Items : run[i] = "none" => run'[i] = "none"]_allVars
  BY <1>1
<1>3. RunsSpec => Spec
  BY RunsAreBatches
<1>4. QED
  BY <1>2, <1>3, TypeCorrect, PlacedCorrect, AccountedCorrect, PTL
     DEF RunsSpec, NoStartWhileDraining

-----------------------------------------------------------------------------
(* What the end of a batch of runs rests on: an operation awaits a request *)
(* that ends whatever the tenant does, and takes finitely many steps.      *)

(* An operation that runs can go on by itself (Resumed): it awaits an      *)
(* answer, which comes or fails with the timeout of the client, or polls   *)
(* under a timeout.                                                        *)
OperationGoesOn(i) == task[i] = "running" /\ stage[i] \in {"reading", "posting", "polling"}

RunsNeverStuck ==
  command \notin Ended =>
    \/ CommandGoesOn
    \/ \E i \in Items : ItemGoesOn(i) \/ OperationGoesOn(i)

Requested == \A i \in Items : task[i] = "running" => stage[i] # "none"

LEMMA RequestedStep ==
  ASSUME TypeOK, Placed, RunTypes, Requested, [RunsNext]_allVars
  PROVE  Requested'
<1> USE DEF Requested, RunTypes, TypeOK
<1>1. CASE BatchStep
  BY <1>1, BatchStepMoves DEF BatchStep, runVars, Past
<1>2. ASSUME NEW i \in Items, AdmitRun(i) PROVE Requested'
  BY <1>2 DEF AdmitRun, Admit
<1>3. ASSUME NEW i \in Items, NEW s \in Status, Return(i, s) PROVE Requested'
  BY <1>3, ReturnMoves DEF Past
<1>4. ASSUME NEW i \in Items, UNCHANGED task,
             stage' = stage \/ \E q \in {"posting", "polling"} : stage' = [stage EXCEPT ![i] = q]
      PROVE  Requested'
  BY <1>4
<1>5. ASSUME NEW i \in Items, ClientStep(i) \/ TenantStep(i) \/ RunCancelled(i)
      PROVE  Requested'
  <2> USE DEF vars, itemVars
  <2>1. CASE TenantStep(i)
    BY <1>4, <2>1 DEF TenantStep
  <2>2. CASE MonitorAnswers(i)
    BY <1>3, <1>4, <2>2 DEF MonitorAnswers, Status
  <2>3. CASE StartAnswered(i)
    BY <1>3, <1>4, <2>3 DEF StartAnswered, Status
  <2>4. CASE PollAnswered(i)
    BY <1>3, <2>4 DEF PollAnswered, Status
  <2>5. CASE PollTimesOut(i)
    BY <1>3, <2>5 DEF PollTimesOut, Status
  <2>6. CASE RequestRaises(i) \/ RunCancelled(i)
    BY <2>6 DEF RequestRaises, RunCancelled, OperationRaises, CancelledAt, Settle, runVars
  <2>7. QED
    BY <1>5, <2>1, <2>2, <2>3, <2>4, <2>5, <2>6 DEF ClientStep
<1>6. CASE UNCHANGED allVars
  BY <1>6 DEF allVars, vars, itemVars, runVars
<1>7. QED
  BY <1>1, <1>2, <1>5, <1>6 DEF RunsNext, Terminated, allVars

(* No batch of runs waits for the tenant alone: until it has ended, the    *)
(* command, an item or an operation can go on, even if no run on the       *)
(* tenant ever ends and no start is ever answered.                         *)
THEOREM RunsAreNeverStuck == RunsSpec => []RunsNeverStuck
<1>1. RunsInit => Requested
  BY DEF RunsInit, Init, Requested
<1>2. TypeOK /\ Placed /\ RunTypes /\ Requested /\ [RunsNext]_allVars => Requested'
  BY RequestedStep
<1>3. RunsSpec => Spec
  BY RunsAreBatches
<1>4. RunsTypeOK => RunTypes
  BY DEF RunsTypeOK, RunTypes
<1>5. NeverStuck /\ RunTypes /\ Requested => RunsNeverStuck
  BY DEF NeverStuck, RunTypes, Requested, RunsNeverStuck, OperationGoesOn, Stage
<1>6. QED
  BY <1>1, <1>2, <1>3, <1>4, <1>5, TypeCorrect, PlacedCorrect, RunsTypeCorrect,
     BatchesAreNeverStuck, PTL DEF RunsSpec

(* How far the operations and the runs have got.                           *)
Posted == {i \in Items : stage[i] \in {"posting", "polling"}}
Polled == {i \in Items : stage[i] = "polling"}
Asked == {i \in Items : run[i] # "none"}
Answered == {i \in Items : run[i] \notin {"none", "requested"}}
RunsOver == {i \in Items : run[i] \in {"refused", "completed", "failed"}}

RunsWork ==
  Work + Cardinality(Posted) + Cardinality(Polled)
    + Cardinality(Asked) + Cardinality(Answered) + Cardinality(RunsOver)
MostRunsWork == MostWork + 5 * N

LEMMA Grown ==
  ASSUME NEW before, NEW after \in SUBSET Items, before \subseteq after
  PROVE  /\ Cardinality(before) \in 0..N /\ Cardinality(after) \in 0..N
         /\ Cardinality(before) <= Cardinality(after)
         /\ before # after => Cardinality(before) < Cardinality(after)
<1>1. /\ Cardinality(before) \in 0..N
      /\ IsFiniteSet(after) /\ Cardinality(after) \in 0..N
  BY ItemsBounded
<1>2. /\ Cardinality(before) <= Cardinality(after)
      /\ Cardinality(before) = Cardinality(after) => before = after
  BY <1>1, FS_Subset
<1>3. QED
  BY <1>1, <1>2

(* No operation and no run falls back, and one that moves gets further.    *)
RunsOnward ==
  /\ Posted \subseteq Posted' /\ Polled \subseteq Polled'
  /\ Asked \subseteq Asked' /\ Answered \subseteq Answered' /\ RunsOver \subseteq RunsOver'

LEMMA RunsAdvance ==
  ASSUME TypeOK, RunTypes, Accounted, [RunsNext]_allVars
  PROVE  /\ RunsOnward
         /\ UNCHANGED vars /\ ~UNCHANGED runVars =>
              \/ Posted # Posted' \/ Polled # Polled'
              \/ Answered # Answered' \/ RunsOver # RunsOver'
<1> DEFINE Further == Posted # Posted' \/ Polled # Polled' \/ Answered # Answered'
                        \/ RunsOver # RunsOver'
           Goal == RunsOnward /\ (UNCHANGED vars /\ ~UNCHANGED runVars => Further)
<1> USE DEF RunsOnward, Posted, Polled, Asked, Answered, RunsOver
<1>1. ASSUME UNCHANGED <<stage, run>> PROVE RunsOnward
  BY <1>1
<1>2. ASSUME NEW i \in Items, TenantStep(i) PROVE Goal
  <2>1. /\ UNCHANGED stage
        /\ \/ run[i] = "requested" /\ run' = [run EXCEPT ![i] = "running"]
           \/ run[i] = "requested" /\ run' = [run EXCEPT ![i] = "refused"]
           \/ run[i] = "running" /\ run' = [run EXCEPT ![i] = "completed"]
           \/ run[i] = "running" /\ run' = [run EXCEPT ![i] = "failed"]
    BY <1>2 DEF TenantStep
  <2>2. RunsOnward
    BY <2>1 DEF RunTypes
  <2>3. i \notin Answered \cap RunsOver /\ i \in Answered'
    BY <2>1 DEF RunTypes
  <2>4. run[i] = "running" => i \notin RunsOver /\ i \in RunsOver'
    BY <2>1 DEF RunTypes
  <2>5. run[i] = "requested" => i \notin Answered
    OBVIOUS
  <2>6. Further
    BY <2>1, <2>3, <2>4, <2>5
  <2>7. QED
    BY <2>2, <2>6
<1>3. ASSUME NEW i \in Items, AdmitRun(i) PROVE Goal
  <2>1. /\ task[i] = "queued" /\ task' = [task EXCEPT ![i] = "running"]
        /\ stage' = [stage EXCEPT ![i] = stage'[i]]
        /\ run' = run \/ run' = [run EXCEPT ![i] = "requested"]
    BY <1>3 DEF AdmitRun, Admit, RunTypes
  <2>2. run[i] = "none" /\ stage[i] \notin {"posting", "polling"}
    BY <2>1 DEF Accounted, AccountedFor
  <2>3. RunsOnward
    BY <2>1, <2>2 DEF RunTypes
  <2>4. ~UNCHANGED vars
    BY <2>1 DEF vars, itemVars, TypeOK
  <2>5. QED
    BY <2>3, <2>4
<1>4. ASSUME NEW i \in Items, NEW s \in Status, Return(i, s) PROVE Goal
  <2>1. task[i] # task'[i] /\ UNCHANGED <<stage, run>>
    BY <1>4, ReturnMoves DEF Past
  <2>2. QED
    BY <1>1, <2>1 DEF vars, itemVars
<1>5. ASSUME NEW i \in Items, ClientStep(i) PROVE Goal
  <2>1. CASE MonitorAnswers(i)
    <3>1. ASSUME stage[i] = "reading", run[i] = "none",
                 stage' = [stage EXCEPT ![i] = "posting"],
                 run' = [run EXCEPT ![i] = "requested"]
          PROVE  Goal
      <4>1. RunsOnward
        BY <3>1 DEF RunTypes
      <4>2. i \notin Posted /\ i \in Posted'
        BY <3>1 DEF RunTypes
      <4>3. QED
        BY <4>1, <4>2
    <3>2. stage[i] = "reading" /\ run[i] = "none"
      BY <2>1 DEF MonitorAnswers, InStage, Accounted, AccountedFor
    <3>3. QED
      BY <1>4, <2>1, <3>1, <3>2 DEF MonitorAnswers, Status
  <2>2. CASE StartAnswered(i)
    <3>1. ASSUME stage[i] = "posting", stage' = [stage EXCEPT ![i] = "polling"], run' = run
          PROVE  Goal
      <4>1. RunsOnward
        BY <3>1 DEF RunTypes
      <4>2. i \notin Polled /\ i \in Polled'
        BY <3>1 DEF RunTypes
      <4>3. QED
        BY <4>1, <4>2
    <3>2. QED
      BY <1>4, <2>2, <3>1 DEF StartAnswered, InStage, Status
  <2>3. CASE PollAnswered(i) \/ PollTimesOut(i)
    BY <1>4, <2>3 DEF PollAnswered, PollTimesOut, Status
  <2>4. CASE RequestRaises(i)
    BY <1>1, <2>4 DEF RequestRaises, runVars
  <2>5. QED
    BY <1>5, <2>1, <2>2, <2>3, <2>4 DEF ClientStep
<1>6. ASSUME UNCHANGED runVars PROVE Goal
  BY <1>1, <1>6 DEF runVars
<1>7. QED
  BY <1>2, <1>3, <1>5, <1>6 DEF RunsNext, BatchStep, RunCancelled, allVars

(* A batch of runs takes at most 5 steps more for each item than a batch   *)
(* without, those of the tenant included, whatever is answered, lost or    *)
(* cancelled; the command waits for that many answers and timeouts.        *)
THEOREM RunsTakeBoundedSteps ==
  RunsSpec => [](RunsWork \in 0..MostRunsWork) /\ [][RunsWork' > RunsWork]_allVars
<1> DEFINE Mapped == /\ Posted \in SUBSET Items /\ Polled \in SUBSET Items
                     /\ Asked \in SUBSET Items /\ Answered \in SUBSET Items
                     /\ RunsOver \in SUBSET Items
<1>1. Mapped /\ Mapped'
  BY DEF Posted, Polled, Asked, Answered, RunsOver
<1>2. ASSUME TypeOK PROVE Work \in Nat /\ RunsWork \in 0..MostRunsWork
  <2>1. Work \in 0..MostWork
    BY <1>2, WorkBounded
  <2>2. /\ Cardinality(Posted) \in 0..N /\ Cardinality(Polled) \in 0..N
        /\ Cardinality(Asked) \in 0..N /\ Cardinality(Answered) \in 0..N
        /\ Cardinality(RunsOver) \in 0..N
    BY <1>1, ItemsBounded
  <2>3. MostWork \in Nat /\ N \in Nat
    BY SizeAssumption, CancelAssumption DEF MostWork
  <2>4. QED
    BY <2>1, <2>2, <2>3 DEF RunsWork, MostRunsWork
<1>3. ASSUME TypeOK, TypeOK', Placed, RunTypes, Accounted, RunsNext, ~UNCHANGED allVars
      PROVE  RunsWork' > RunsWork
  <2>1. RunsOnward
    BY <1>3, RunsAdvance
  <2>2. /\ Cardinality(Posted) \in Nat /\ Cardinality(Posted') \in Nat
        /\ Cardinality(Posted) <= Cardinality(Posted')
        /\ Posted # Posted' => Cardinality(Posted) < Cardinality(Posted')
    BY <1>1, <2>1, Grown DEF RunsOnward
  <2>3. /\ Cardinality(Polled) \in Nat /\ Cardinality(Polled') \in Nat
        /\ Cardinality(Polled) <= Cardinality(Polled')
        /\ Polled # Polled' => Cardinality(Polled) < Cardinality(Polled')
    BY <1>1, <2>1, Grown DEF RunsOnward
  <2>4. /\ Cardinality(Asked) \in Nat /\ Cardinality(Asked') \in Nat
        /\ Cardinality(Asked) <= Cardinality(Asked')
    BY <1>1, <2>1, Grown DEF RunsOnward
  <2>5. /\ Cardinality(Answered) \in Nat /\ Cardinality(Answered') \in Nat
        /\ Cardinality(Answered) <= Cardinality(Answered')
        /\ Answered # Answered' => Cardinality(Answered) < Cardinality(Answered')
    BY <1>1, <2>1, Grown DEF RunsOnward
  <2>6. /\ Cardinality(RunsOver) \in Nat /\ Cardinality(RunsOver') \in Nat
        /\ Cardinality(RunsOver) <= Cardinality(RunsOver')
        /\ RunsOver # RunsOver' => Cardinality(RunsOver) < Cardinality(RunsOver')
    BY <1>1, <2>1, Grown DEF RunsOnward
  <2>7. Work \in Nat
    BY <1>2, <1>3
  <2>8. CASE ~UNCHANGED vars
    <3>1. Work' > Work /\ Work' \in Nat
      BY <1>3, <2>8, RunsStepIsBatchStep, WorkGrows
    <3>2. QED
      BY <2>2, <2>3, <2>4, <2>5, <2>6, <2>7, <3>1 DEF RunsWork
  <2>9. CASE UNCHANGED vars
    <3>1. Work' = Work
      BY <2>9 DEF Work, Reached, vars, commandVars, itemVars
    <3>2. ~UNCHANGED runVars
      BY <1>3, <2>9 DEF allVars
    <3>3. \/ Posted # Posted' \/ Polled # Polled'
          \/ Answered # Answered' \/ RunsOver # RunsOver'
      BY <1>3, <2>9, <3>2, RunsAdvance
    <3>4. QED
      BY <2>2, <2>3, <2>4, <2>5, <2>6, <2>7, <3>1, <3>3 DEF RunsWork
  <2>10. QED
    BY <2>8, <2>9
<1>4. RunsSpec => Spec
  BY RunsAreBatches
<1>5. TypeOK /\ TypeOK' /\ Placed /\ RunTypes /\ Accounted /\ [RunsNext]_allVars
        => [RunsWork' > RunsWork]_allVars
  BY <1>3
<1>6. TypeOK => RunsWork \in 0..MostRunsWork
  BY <1>2
<1>7. QED
  BY <1>4, <1>5, <1>6, TypeCorrect, PlacedCorrect, AccountedCorrect, PTL DEF RunsSpec

=============================================================================
