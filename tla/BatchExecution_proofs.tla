------------------------ MODULE BatchExecution_proofs ------------------------
(***************************************************************************)
(* Theorems about BatchExecution for every batch size, concurrency limit   *)
(* and number of cancellations.  The invariants are proved in layers: each *)
(* one is inductive relative to those before it.                           *)
(***************************************************************************)
EXTENDS BatchExecution, FiniteSetTheorems, SequenceTheorems, TLAPS

USE SizeAssumption, ConcurrencyAssumption, CancelAssumption

-----------------------------------------------------------------------------
(* Types.                                                                  *)

LEMMA TypeInit == Init => TypeOK
<1> SUFFICES ASSUME Init PROVE TypeOK
  OBVIOUS
<1> USE DEF Init
<1>1. /\ command \in CommandPlace
      /\ task \in [Items -> TaskPlace]
      /\ outcome \in [Items -> Outcome \cup {"none"}]
  BY DEF CommandPlace, TaskPlace
<1>2. /\ permits \in Nat
      /\ lock \in Items \cup {0}
      /\ cancels \in 0..MaxCancels
  OBVIOUS
<1>3. counts \in [Outcome -> Nat]
  OBVIOUS
<1>4. /\ cancelling \subseteq Items
      /\ interrupted \in BOOLEAN
      /\ gathered \in Raised \cup {"none"}
      /\ error \in Raised \cup {"none"}
  OBVIOUS
<1>5. /\ lifecycle \in Seq([phase : TerminalPhase \cup {"started"},
                            counters : BOOLEAN])
      /\ advanced \in Seq([item : Items, completed : Nat])
      /\ delivered \in Seq(Items)
  OBVIOUS
<1>6. QED
  BY <1>1, <1>2, <1>3, <1>4, <1>5 DEF TypeOK

(* What the helpers return.                                                *)
LEMMA TotalType == ASSUME NEW c \in [Outcome -> Nat] PROVE Total(c) \in Nat
  BY DEF Total, Outcome

LEMMA PhaseType ==
  /\ \A c : BatchPhase(c) \in TerminalPhase
  /\ \A e : ErrorPhase(e) \in TerminalPhase
  /\ "cancelled" \in TerminalPhase
  BY DEF BatchPhase, ErrorPhase, TerminalPhase

(* A step of the command's own coroutine keeps the types. *)
LEMMA TypeCommand == ASSUME TypeOK, CommandStep PROVE TypeOK'
<1> USE DEF TypeOK, commandVars, itemVars, reportVars, CommandPlace, Raised
<1>1. CASE Start
  BY <1>1 DEF Start, Update
<1>2. CASE Announce
  BY <1>2 DEF Announce, Update
<1>3. CASE CreateTasks
  BY <1>3 DEF CreateTasks, TaskPlace
<1>4. CASE GatherReturns
  BY <1>4, PhaseType DEF GatherReturns, Update
<1>5. CASE GatherRaises
  BY <1>5 DEF GatherRaises, Unfinished, Cancellation
<1>6. CASE Drained
  <2>1. error' \in Raised \cup {"none"}
    BY <1>6 DEF Drained, Cancellation
  <2>2. ErrorPhase(error') \in TerminalPhase
    BY PhaseType
  <2>3. lifecycle' \in Seq([phase : TerminalPhase \cup {"started"},
                           counters : BOOLEAN])
    BY <1>6, <2>2 DEF Drained, Update
  <2>4. QED
    BY <1>6, <2>1, <2>3 DEF Drained
<1>7. CASE Finish
  BY <1>7 DEF Finish
<1>8. CASE ReportFails
  BY <1>8 DEF ReportFails, Cancellation, Failure
<1>9. CASE AnnounceFails
  <2>1. lifecycle' \in Seq([phase : TerminalPhase \cup {"started"},
                           counters : BOOLEAN])
    <3>1. ErrorPhase(error') \in TerminalPhase
      BY PhaseType
    <3>2. QED
      BY <1>9, <3>1 DEF AnnounceFails, Update
  <2>2. error' \in Raised \cup {"none"}
    BY <1>9 DEF AnnounceFails, Cancellation, Failure
  <2>3. QED
    BY <1>9, <2>1, <2>2 DEF AnnounceFails
<1>10. QED
  BY <1>1, <1>2, <1>3, <1>4, <1>5, <1>6, <1>7, <1>8, <1>9 DEF CommandStep

(* So does a cancellation by the caller. *)
LEMMA TypeCancel == ASSUME TypeOK, CancelTasks \/ CancelCommand PROVE TypeOK'
<1> USE DEF TypeOK, CancelRequest, commandVars, itemVars, reportVars
<1>1. ASSUME CancelRequest PROVE cancels' \in 0..MaxCancels
  BY <1>1
<1>2. CASE CancelTasks
  <2>1. interrupted' \in BOOLEAN
    BY <1>2 DEF CancelTasks
  <2>2. cancelling' \subseteq Items
    BY <1>2 DEF CancelTasks, Unfinished
  <2>3. QED
    BY <1>1, <1>2, <2>1, <2>2 DEF CancelTasks
<1>3. CASE CancelCommand
  BY <1>1, <1>3 DEF CancelCommand
<1>4. QED
  BY <1>2, <1>3

LEMMA TypeRecord ==
  ASSUME TypeOK, NEW i \in Items, NEW o \in Outcome, Record(i, o)
  PROVE  /\ lock' \in Items \cup {0}
         /\ counts' \in [Outcome -> Nat]
         /\ advanced' \in Seq([item : Items, completed : Nat])
         /\ delivered' = delivered
<1>1. counts' \in [Outcome -> Nat]
  BY DEF Record, TypeOK
<1>2. Total(counts') \in Nat
  BY <1>1, TotalType
<1>3. QED
  BY <1>1, <1>2 DEF Record, TypeOK

(* A step of an item's task does too: a recorded item has an outcome.      *)
LEMMA TypeItem ==
  ASSUME TypeOK, OutcomeKnown, NEW i \in Items, ItemStep(i)
  PROVE  TypeOK'
<1> USE DEF TypeOK, commandVars, itemVars, reportVars, TaskPlace
<1>1. CASE Admit(i)
  BY <1>1 DEF Admit
<1>2. ASSUME NEW o \in Outcome, OperationReturns(i, o) PROVE TypeOK'
  <2>1. /\ outcome' \in [Items -> Outcome \cup {"none"}]
        /\ permits' \in Nat
        /\ UNCHANGED <<cancelling, gathered, commandVars, cancels>>
    BY <1>2 DEF OperationReturns, ReleasePermit
  <2>2. CASE Record(i, o) /\ task' = [task EXCEPT ![i] = "reporting"]
    BY <2>1, <2>2, TypeRecord
  <2>3. CASE UNCHANGED reportVars /\ task' = [task EXCEPT ![i] = "completing"]
    BY <2>1, <2>3
  <2>4. QED
    BY <1>2, <2>2, <2>3 DEF OperationReturns
<1>3. ASSUME NEW e \in Failure, OperationRaises(i, e) PROVE TypeOK'
  BY <1>3 DEF OperationRaises, ReleasePermit, Settle, Raised
<1>4. CASE AcquireLock(i)
  <2>1. outcome[i] \in Outcome
    BY <1>4 DEF AcquireLock, OutcomeKnown
  <2>2. QED
    BY <1>4, <2>1, TypeRecord DEF AcquireLock
<1>5. CASE ProgressReturns(i)
  BY <1>5 DEF ProgressReturns
<1>6. CASE DeliveryReturns(i)
  BY <1>6 DEF DeliveryReturns, ReleaseLock
<1>7. CASE CallbackRaises(i)
  BY <1>7 DEF CallbackRaises, ReleaseLock, Settle, Raised, Failure
<1>8. ASSUME NEW e \in Cancellation, CancelledAt(i, e) PROVE TypeOK'
  BY <1>8 DEF CancelledAt, ReleaseLock, ReleasePermit, Settle, Raised
<1>9. QED
  BY <1>1, <1>2, <1>3, <1>4, <1>5, <1>6, <1>7, <1>8
     DEF ItemStep, OperationStep, ReportStep

(* Steps that record outcomes and move tasks keep every recorded outcome.  *)
LEMMA OutcomeStep == ASSUME TypeOK, OutcomeKnown, [Next]_vars PROVE OutcomeKnown'
<1> USE DEF TypeOK, OutcomeKnown, commandVars, itemVars, reportVars
<1>1. CASE CommandStep
  BY <1>1 DEF CommandStep, Start, Announce, CreateTasks, GatherReturns,
     GatherRaises, Drained, Finish, ReportFails, AnnounceFails
<1>2. CASE CancelTasks \/ CancelCommand
  BY <1>2 DEF CancelTasks, CancelCommand
<1>3. ASSUME NEW i \in Items, ItemStep(i) PROVE OutcomeKnown'
  <2>1. ASSUME NEW o \in Outcome, OperationReturns(i, o) PROVE OutcomeKnown'
    BY <2>1 DEF OperationReturns
  <2>2. CASE Admit(i) \/ AcquireLock(i) \/ ProgressReturns(i) \/ DeliveryReturns(i)
    BY <2>2 DEF Admit, AcquireLock, ProgressReturns, DeliveryReturns
  <2>3. CASE \/ \E e \in Failure : OperationRaises(i, e)
             \/ \E e \in Cancellation : CancelledAt(i, e)
             \/ CallbackRaises(i)
    BY <2>3 DEF OperationRaises, CancelledAt, CallbackRaises, Settle
  <2>4. QED
    BY <1>3, <2>1, <2>2, <2>3 DEF ItemStep, OperationStep, ReportStep
<1>4. CASE UNCHANGED vars
  BY <1>4 DEF vars
<1>5. QED
  BY <1>1, <1>2, <1>3, <1>4 DEF Next, Terminated

(* TypeOK is an invariant: every variable of a batch, of any size, keeps   *)
(* its type, and an item past its operation has its outcome.               *)
THEOREM TypeCorrect == Spec => [](TypeOK /\ OutcomeKnown)
<1>1. Init => TypeOK /\ OutcomeKnown
  BY TypeInit DEF Init, OutcomeKnown
<1>2. TypeOK /\ OutcomeKnown /\ [Next]_vars => (TypeOK /\ OutcomeKnown)'
  <2> SUFFICES ASSUME TypeOK, OutcomeKnown, [Next]_vars
               PROVE  TypeOK' /\ OutcomeKnown'
    OBVIOUS
  <2>1. ASSUME UNCHANGED vars PROVE TypeOK'
    BY <2>1 DEF TypeOK, vars, commandVars, itemVars, reportVars
  <2>2. ASSUME CommandStep PROVE TypeOK'
    BY <2>2, TypeCommand
  <2>3. ASSUME CancelTasks \/ CancelCommand PROVE TypeOK'
    BY <2>3, TypeCancel
  <2>4. ASSUME NEW i \in Items, ItemStep(i) PROVE TypeOK'
    BY <2>4, TypeItem
  <2>5. TypeOK'
    BY <2>1, <2>2, <2>3, <2>4 DEF Next, Terminated
  <2>6. QED
    BY <2>5, OutcomeStep
<1>3. QED
  BY <1>1, <1>2, PTL DEF Spec

-----------------------------------------------------------------------------
(* Where tasks can be while the command's own coroutine is in some place.  *)

(* Tasks exist from CreateTasks on, only unfinished tasks are cancelled,   *)
(* while _gather drains every unfinished one is, and none is left when the *)
(* terminal phase is reported.                                             *)
Placed ==
  /\ command \in {"idle", "starting", "announcing"} =>
       \A i \in Items : task[i] = "absent"
  /\ command = "gathering" => \A i \in Items : task[i] # "absent"
  /\ cancelling \subseteq Unfinished
  /\ command = "draining" => Unfinished \subseteq cancelling
  /\ NoOrphans

(* What any step of one item's task leaves alone.                          *)
LEMMA ItemFrame ==
  ASSUME TypeOK, Placed, NEW i \in Items, ItemStep(i)
  PROVE  /\ UNCHANGED <<commandVars, cancels>>
         /\ i \in Unfinished
         /\ task' = [task EXCEPT ![i] = task'[i]]
         /\ task'[i] \notin {"absent", "queued"}
         /\ cancelling' = cancelling \ {i}
         /\ i \in cancelling => task'[i] = "cancelled"
<1> USE DEF TypeOK, Placed, Unfinished, Settled
<1>1. CASE Admit(i)
  BY <1>1 DEF Admit
<1>2. ASSUME NEW o \in Outcome, OperationReturns(i, o)
      PROVE  /\ task' = [task EXCEPT ![i] = task'[i]]
             /\ task'[i] \in {"reporting", "completing"}
             /\ task[i] = "running"
  BY <1>2 DEF OperationReturns
<1>3. CASE \/ \E o \in Outcome : OperationReturns(i, o)
           \/ AcquireLock(i) \/ ProgressReturns(i) \/ DeliveryReturns(i)
  BY <1>2, <1>3 DEF OperationReturns, AcquireLock, ProgressReturns, DeliveryReturns
<1>4. CASE \/ \E e \in Failure : OperationRaises(i, e)
           \/ CallbackRaises(i)
  BY <1>4 DEF OperationRaises, CallbackRaises, Settle
<1>5. CASE \E e \in Cancellation : CancelledAt(i, e)
  BY <1>5 DEF CancelledAt, Settle
<1>6. QED
  BY <1>1, <1>3, <1>4, <1>5 DEF ItemStep, OperationStep, ReportStep

LEMMA PlacedStep == ASSUME TypeOK, Placed, [Next]_vars PROVE Placed'
<1> USE DEF commandVars, itemVars, reportVars
<1>1. ASSUME NEW i \in Items, ItemStep(i) PROVE Placed'
  <2>1. Unfinished' \subseteq Unfinished /\ cancelling' \subseteq cancelling
    BY <1>1, ItemFrame DEF TypeOK, Unfinished, Settled
  <2>2. cancelling' \subseteq Unfinished'
    BY <1>1, ItemFrame DEF TypeOK, Unfinished, Placed
  <2>3. Unfinished \subseteq cancelling => Unfinished' \subseteq cancelling'
    BY <1>1, ItemFrame DEF TypeOK, Unfinished, Settled
  <2>4. QED
    BY <1>1, <2>1, <2>2, <2>3, ItemFrame DEF TypeOK, Placed, NoOrphans, Unfinished, Ended
<1>2. CASE CommandStep
  <2> USE <1>2 DEF TypeOK, Placed, NoOrphans, Ended, Unfinished, Settled
  <2>1. CASE Start \/ Announce
    BY <2>1 DEF Start, Announce
  <2>2. CASE CreateTasks
    BY <2>2 DEF CreateTasks
  <2>3. CASE GatherReturns \/ GatherRaises
    BY <2>3 DEF GatherReturns, GatherRaises
  <2>4. CASE Drained \/ Finish
    BY <2>4 DEF Drained, Finish
  <2>5. CASE ReportFails \/ AnnounceFails
    BY <2>5 DEF ReportFails, AnnounceFails
  <2>6. QED
    BY <2>1, <2>2, <2>3, <2>4, <2>5 DEF CommandStep
<1>3. CASE CancelTasks \/ CancelCommand
  BY <1>3 DEF CancelTasks, CancelCommand, Placed, NoOrphans, Unfinished
<1>4. CASE UNCHANGED vars
  BY <1>4 DEF vars, Placed, NoOrphans, Unfinished
<1>5. QED
  BY <1>1, <1>2, <1>3, <1>4 DEF Next, Terminated

LEMMA PlacedCorrect == Spec => []Placed
<1>1. Init => Placed
  BY DEF Init, Placed, NoOrphans, Ended, Unfinished
<1>2. TypeOK /\ Placed /\ [Next]_vars => Placed'
  BY PlacedStep
<1>3. QED
  BY <1>1, <1>2, TypeCorrect, PTL DEF Spec

(* NoOrphans: when the terminal phase of a batch is reported, no item task *)
(* is left that could still run, hold the lock or report.                  *)
THEOREM NoTaskOutlivesBatch == Spec => []NoOrphans
<1>1. Placed => NoOrphans
  BY DEF Placed
<1>2. QED
  BY <1>1, PlacedCorrect, PTL

-----------------------------------------------------------------------------
(* The semaphore.                                                          *)

LEMMA RunningFinite == IsFiniteSet(Running) /\ IsFiniteSet(Items)
<1>1. IsFiniteSet(Items)
  BY FS_Interval DEF Items
<1>2. Running \in SUBSET Items
  BY DEF Running
<1>3. QED
  BY <1>1, <1>2, FS_Subset

(* A step that gives the permit back and leaves the operation.             *)
LEMMA LeaveOperation ==
  ASSUME TypeOK, ConcurrencyBound, NEW i \in Items, ReleasePermit(i),
         task' = [task EXCEPT ![i] = task'[i]], task'[i] # "running"
  PROVE  ConcurrencyBound'
<1>1. Running' = Running \ {i}
  BY DEF Running, TypeOK
<1>2. Cardinality(Running') = IF i \in Running THEN Cardinality(Running) - 1
                                              ELSE Cardinality(Running)
  BY <1>1, RunningFinite, FS_RemoveElement
<1>3. Cardinality(Running) \in Nat
  BY RunningFinite, FS_CardinalityType
<1>4. QED
  BY <1>2, <1>3 DEF ConcurrencyBound, ReleasePermit, Running, TypeOK

LEMMA ConcurrencyItem ==
  ASSUME TypeOK, Placed, ConcurrencyBound, NEW i \in Items, ItemStep(i)
  PROVE  ConcurrencyBound'
<1> USE DEF commandVars, itemVars, reportVars
<1>1. CASE Admit(i)
  <2>1. Running' = Running \cup {i} /\ i \notin Running
    BY <1>1 DEF Admit, Running, TypeOK
  <2>2. Cardinality(Running') = Cardinality(Running) + 1
    BY <2>1, RunningFinite, FS_AddElement
  <2>3. Cardinality(Running) \in Nat
    BY RunningFinite, FS_CardinalityType
  <2>4. permits' = permits - 1
    BY <1>1 DEF Admit
  <2>5. QED
    BY <2>2, <2>3, <2>4 DEF ConcurrencyBound, TypeOK
<1>2. task' = [task EXCEPT ![i] = task'[i]]
  BY ItemFrame
<1>3. ASSUME AcquireLock(i) \/ ProgressReturns(i) \/ DeliveryReturns(i) \/ CallbackRaises(i)
      PROVE  ConcurrencyBound'
  <2>1. task'[i] # "running" /\ task[i] # "running" /\ permits' = permits
    BY <1>3 DEF AcquireLock, ProgressReturns, DeliveryReturns, CallbackRaises,
       Settle, TypeOK
  <2>2. ReleasePermit(i)
    BY <2>1 DEF ReleasePermit
  <2>3. QED
    BY <1>2, <2>1, <2>2, LeaveOperation
<1>4. ASSUME OperationStep(i) \/ \E e \in Cancellation : CancelledAt(i, e)
      PROVE  ConcurrencyBound'
  <2>1. ReleasePermit(i) /\ task'[i] # "running"
    BY <1>4 DEF OperationStep, OperationReturns, OperationRaises, CancelledAt,
       Settle, TypeOK
  <2>2. QED
    BY <1>2, <2>1, LeaveOperation
<1>5. QED
  BY <1>1, <1>3, <1>4 DEF ItemStep, ReportStep

(* ConcurrencyBound: a batch never runs more operations at a time than     *)
(* max_concurrency, and no permit is lost on any way out of an operation.  *)
THEOREM ConcurrencyIsBounded == Spec => []ConcurrencyBound
<1>1. Init => ConcurrencyBound
  <2> SUFFICES ASSUME Init PROVE ConcurrencyBound
    OBVIOUS
  <2>1. Running = {}
    BY DEF Init, Running
  <2>2. QED
    BY <2>1, FS_EmptySet DEF Init, ConcurrencyBound
<1>2. TypeOK /\ Placed /\ ConcurrencyBound /\ [Next]_vars => ConcurrencyBound'
  <2> SUFFICES ASSUME TypeOK, Placed, ConcurrencyBound, [Next]_vars
               PROVE  ConcurrencyBound'
    OBVIOUS
  <2>1. ASSUME UNCHANGED <<task, permits>> PROVE ConcurrencyBound'
    BY <2>1 DEF ConcurrencyBound, Running
  <2>2. CASE CreateTasks
    <3>1. Running' = Running /\ permits' = permits
      BY <2>2 DEF CreateTasks, Running, Placed
    <3>2. QED
      BY <3>1 DEF ConcurrencyBound
  <2>3. CASE CommandStep /\ ~CreateTasks
    BY <2>1, <2>3 DEF CommandStep, Start, Announce, GatherReturns, GatherRaises,
       Drained, Finish, ReportFails, AnnounceFails, itemVars
  <2>4. CASE CancelTasks \/ CancelCommand \/ UNCHANGED vars
    BY <2>1, <2>4 DEF CancelTasks, CancelCommand, vars, itemVars
  <2>5. QED
    BY <2>2, <2>3, <2>4, ConcurrencyItem DEF Next, Terminated
<1>3. QED
  BY <1>1, <1>2, TypeCorrect, PlacedCorrect, PTL DEF Spec

-----------------------------------------------------------------------------
(* The reporter.                                                           *)

(* How far an item's task got tells what the caller heard of it.           *)
Told ==
  /\ \A i \in Items :
       /\ task[i] \in {"absent", "queued", "running", "completing"}
            => i \notin Reported
       /\ task[i] \in {"reporting", "delivering", "done"} => i \in Reported
       /\ task[i] = "reporting" => i \notin Handed
       /\ task[i] \in {"delivering", "done"} => i \in Handed
  /\ Handed \subseteq Reported

Reporter == ReportsSerialised /\ CountersInStep /\ Told

LEMMA CountOne ==
  ASSUME NEW c \in [Outcome -> Nat], NEW o \in Outcome
  PROVE  Total([c EXCEPT ![o] = @ + 1]) = Total(c) + 1
  BY DEF Outcome, Total

LEMMA ReportedAfter ==
  ASSUME advanced \in Seq([item : Items, completed : Nat]),
         NEW i \in Items, NEW n \in Nat,
         advanced' = Append(advanced, [item |-> i, completed |-> n])
  PROVE  Reported' = Reported \cup {i}
<1> DEFINE e == [item |-> i, completed |-> n]
<1>1. /\ Len(advanced') = Len(advanced) + 1
      /\ Len(advanced) \in Nat
      /\ \A k \in 1..Len(advanced) : advanced'[k] = advanced[k]
      /\ advanced'[Len(advanced) + 1] = e
  OBVIOUS
<1>2. Reported' \subseteq Reported \cup {i}
  BY <1>1 DEF Reported
<1>3. Reported \subseteq Reported'
  BY <1>1 DEF Reported
<1>4. i \in Reported'
  BY <1>1 DEF Reported
<1>5. QED
  BY <1>2, <1>3, <1>4

LEMMA HandedAfter ==
  ASSUME delivered \in Seq(Items), NEW i \in Items,
         delivered' = Append(delivered, i)
  PROVE  Handed' = Handed \cup {i}
<1>1. /\ Len(delivered') = Len(delivered) + 1
      /\ Len(delivered) \in Nat
      /\ \A k \in 1..Len(delivered) : delivered'[k] = delivered[k]
      /\ delivered'[Len(delivered) + 1] = i
  OBVIOUS
<1>2. Handed' \subseteq Handed \cup {i}
  BY <1>1 DEF Handed
<1>3. Handed \subseteq Handed'
  BY <1>1 DEF Handed
<1>4. i \in Handed'
  BY <1>1 DEF Handed
<1>5. QED
  BY <1>2, <1>3, <1>4

(* Recording an item with the lock free keeps the reporter's books.        *)
LEMMA ReporterRecord ==
  ASSUME TypeOK, Reporter, NEW i \in Items, NEW o \in Outcome,
         task[i] \in {"running", "completing"}, lock = 0, Record(i, o),
         task' = [task EXCEPT ![i] = "reporting"]
  PROVE  Reporter'
<1> USE DEF TypeOK
<1>1. i \notin Reported
  BY DEF Reporter, Told
<1>2. Total(counts') = Total(counts) + 1 /\ Total(counts) \in Nat
  BY CountOne, TotalType DEF Record
<1>3. advanced' = Append(advanced, [item |-> i, completed |-> Total(counts) + 1])
  BY <1>2 DEF Record
<1>4. Reported' = Reported \cup {i} /\ Handed' = Handed
  <2>1. Total(counts) + 1 \in Nat
    BY <1>2
  <2>2. Reported' = Reported \cup {i}
    BY <1>3, <2>1, ReportedAfter
  <2>3. Handed' = Handed
    BY DEF Record, Handed
  <2>4. QED
    BY <2>2, <2>3
<1>5. ReportsSerialised'
  <2>1. 0 \notin Items
    BY DEF Items
  <2>2. \A j \in Items : task[j] \notin {"reporting", "delivering"}
    BY <2>1 DEF Reporter, ReportsSerialised
  <2>3. lock' = i
    BY DEF Record
  <2>4. QED
    BY <2>2, <2>3 DEF ReportsSerialised
<1>6. Told'
  BY <1>1, <1>4 DEF Reporter, Told
<1>7. CountersInStep'
  <2>1. /\ Len(advanced) \in Nat
        /\ Len(advanced') = Len(advanced) + 1
        /\ \A k \in 1..Len(advanced) : advanced'[k] = advanced[k]
        /\ advanced'[Len(advanced) + 1].item = i
        /\ advanced'[Len(advanced) + 1].completed = Total(counts) + 1
    BY <1>2, <1>3
  <2>2. Total(counts) = Len(advanced)
    BY DEF Reporter, CountersInStep
  <2>3. \A k \in 1..Len(advanced') : advanced'[k].completed = k
    BY <2>1, <2>2 DEF Reporter, CountersInStep
  <2>4. \A k \in 1..Len(advanced) : advanced[k].item # i
    BY <1>1 DEF Reported
  <2>5. ASSUME NEW k \in 1..Len(advanced'), NEW l \in 1..Len(advanced'),
               advanced'[k].item = advanced'[l].item
        PROVE  k = l
    <3>1. CASE k \in 1..Len(advanced) /\ l \in 1..Len(advanced)
      BY <2>1, <2>5, <3>1 DEF Reporter, CountersInStep
    <3>2. CASE k = Len(advanced) + 1 \/ l = Len(advanced) + 1
      BY <2>1, <2>4, <2>5, <3>2
    <3>3. QED
      BY <2>1, <3>1, <3>2
  <2>6. QED
    BY <1>2, <2>1, <2>2, <2>3, <2>5 DEF CountersInStep
<1>8. QED
  BY <1>5, <1>6, <1>7 DEF Reporter

(* Leaving the lock's block, or never entering it, keeps them too.         *)
LEMMA ReporterLeave ==
  ASSUME TypeOK, Reporter, NEW i \in Items, ReleaseLock(i),
         UNCHANGED <<counts, advanced, delivered>>,
         task' = [task EXCEPT ![i] = task'[i]],
         \/ task'[i] \in {"failed", "cancelled"}
         \/ task'[i] = "done" /\ task[i] = "delivering"
  PROVE  Reporter'
<1>1. Reported' = Reported /\ Handed' = Handed
  BY DEF Reported, Handed
<1>2. ReportsSerialised'
  BY DEF Reporter, ReportsSerialised, ReleaseLock, TypeOK, Items
<1>3. CountersInStep'
  BY DEF Reporter, CountersInStep
<1>4. Told'
  BY <1>1 DEF Reporter, Told, TypeOK
<1>5. QED
  BY <1>2, <1>3, <1>4 DEF Reporter

LEMMA ReporterItem ==
  ASSUME TypeOK, OutcomeKnown, Placed, Reporter, NEW i \in Items, ItemStep(i)
  PROVE  Reporter'
<1>1. task' = [task EXCEPT ![i] = task'[i]]
  BY ItemFrame
<1>2. ASSUME NEW p \in {"running", "completing"},
             task' = [task EXCEPT ![i] = p],
             task[i] \in {"queued", "running"}, UNCHANGED reportVars
      PROVE  Reporter'
  <2>1. Reported' = Reported /\ Handed' = Handed
    BY <1>2 DEF Reported, Handed, reportVars
  <2>2. QED
    BY <1>2, <2>1 DEF Reporter, ReportsSerialised, CountersInStep, Told,
       TypeOK, reportVars
<1>3. CASE Admit(i)
  BY <1>2, <1>3 DEF Admit
<1>4. ASSUME NEW o \in Outcome, OperationReturns(i, o) PROVE Reporter'
  BY <1>2, <1>4, ReporterRecord DEF OperationReturns
<1>5. CASE AcquireLock(i)
  BY <1>5, ReporterRecord DEF AcquireLock, OutcomeKnown
<1>6. CASE ProgressReturns(i)
  <2>1. Reported' = Reported /\ Handed' = Handed \cup {i}
    BY <1>6, HandedAfter DEF ProgressReturns, Reported, TypeOK
  <2>2. QED
    BY <1>6, <2>1 DEF ProgressReturns, Reporter, ReportsSerialised,
       CountersInStep, Told, TypeOK
<1>7. CASE DeliveryReturns(i) \/ CallbackRaises(i)
  BY <1>1, <1>7, ReporterLeave DEF DeliveryReturns, CallbackRaises, Settle, TypeOK
<1>8. ASSUME NEW e, OperationRaises(i, e) \/ CancelledAt(i, e) PROVE Reporter'
  <2>1. ReleaseLock(i)
    BY <1>8 DEF OperationRaises, CancelledAt, ReleaseLock, Reporter,
       ReportsSerialised, reportVars
  <2>2. QED
    BY <1>1, <1>8, <2>1, ReporterLeave
       DEF OperationRaises, CancelledAt, Settle, TypeOK, reportVars
<1>9. QED
  BY <1>3, <1>4, <1>5, <1>6, <1>7, <1>8 DEF ItemStep, OperationStep, ReportStep

LEMMA ReporterCorrect == Spec => []Reporter
<1>1. Init => Reporter
  BY DEF Init, Reporter, ReportsSerialised, CountersInStep, Told, Reported,
     Handed, Total, Outcome, Items
<1>2. /\ TypeOK /\ OutcomeKnown /\ Placed /\ Reporter /\ [Next]_vars
      => Reporter'
  <2> SUFFICES ASSUME TypeOK, OutcomeKnown, Placed, Reporter, [Next]_vars
               PROVE  Reporter'
    OBVIOUS
  <2>1. ASSUME UNCHANGED <<task, reportVars>> PROVE Reporter'
    BY <2>1 DEF Reporter, ReportsSerialised, CountersInStep, Told, Reported,
       Handed, reportVars
  <2>2. CASE CreateTasks
    <3>1. Reported' = Reported /\ Handed' = Handed
      BY <2>2 DEF CreateTasks, Reported, Handed, reportVars
    <3>2. QED
      BY <2>2, <3>1 DEF CreateTasks, Reporter, ReportsSerialised,
         CountersInStep, Told, Placed, reportVars
  <2>3. CASE CommandStep /\ ~CreateTasks
    BY <2>1, <2>3 DEF CommandStep, Start, Announce, GatherReturns, GatherRaises,
       Drained, Finish, ReportFails, AnnounceFails, itemVars
  <2>4. CASE CancelTasks \/ CancelCommand \/ UNCHANGED vars
    BY <2>1, <2>4 DEF CancelTasks, CancelCommand, vars, itemVars
  <2>5. QED
    BY <2>2, <2>3, <2>4, ReporterItem DEF Next, Terminated
<1>3. QED
  BY <1>1, <1>2, TypeCorrect, PlacedCorrect, PTL DEF Spec

(* ReportsSerialised: the callbacks for two items never overlap; an item   *)
(* is in the middle of its reports exactly while it holds the lock.        *)
THEOREM ReportsAreSerialised == Spec => []ReportsSerialised
  BY ReporterCorrect, PTL DEF Reporter

(* CountersInStep: the k-th 'advanced' update says k items are complete    *)
(* and no item advances twice.                                             *)
THEOREM CountersAreInStep == Spec => []CountersInStep
  BY ReporterCorrect, PTL DEF Reporter

-----------------------------------------------------------------------------
(* How the batch ends.                                                     *)

(* The gather future knows of every task that did not return; a command    *)
(* that closes without an exception has only tasks that did; the terminal  *)
(* phase is reported on the way out.                                       *)
Ending ==
  /\ gathered = "none" => \A i \in Items : task[i] \notin {"failed", "cancelled"}
  /\ command = "draining" => error # "none"
  /\ command \in {"closing", "returned"} /\ error = "none" =>
       \A i \in Items : task[i] = "done"
  /\ command = "returned" => error = "none"
  /\ (\E k \in 1..Len(lifecycle) : lifecycle[k].phase \in TerminalPhase)
       => command \in {"closing"} \cup Ended

LEMMA EndingItem ==
  ASSUME TypeOK, Placed, Ending, NEW i \in Items, ItemStep(i)
  PROVE  Ending'
<1>1. /\ UNCHANGED commandVars
      /\ i \in Unfinished
      /\ task' = [task EXCEPT ![i] = task'[i]]
  BY ItemFrame
<1>2. command \notin {"closing"} \cup Ended
  BY <1>1 DEF Placed, NoOrphans
<1>3. gathered' = "none" => gathered = "none" /\ task'[i] \notin {"failed", "cancelled"}
  <2>1. CASE Admit(i) \/ AcquireLock(i) \/ ProgressReturns(i) \/ DeliveryReturns(i)
    BY <2>1 DEF Admit, AcquireLock, ProgressReturns, DeliveryReturns, TypeOK
  <2>2. CASE \E o \in Outcome : OperationReturns(i, o)
    BY <2>2 DEF OperationReturns, TypeOK
  <2>3. CASE \/ \E e \in Failure : OperationRaises(i, e)
             \/ CallbackRaises(i)
             \/ \E e \in Cancellation : CancelledAt(i, e)
    BY <2>3 DEF OperationRaises, CallbackRaises, CancelledAt, Settle, Failure,
       Cancellation
  <2>4. QED
    BY <2>1, <2>2, <2>3 DEF ItemStep, OperationStep, ReportStep
<1>4. QED
  BY <1>1, <1>2, <1>3 DEF Ending, Ended, TypeOK, commandVars

LEMMA EndingCommand ==
  ASSUME TypeOK, Placed, Ending, CommandStep
  PROVE  Ending'
<1> USE DEF itemVars, reportVars
<1> DEFINE HasTerminal(l) == \E k \in 1..Len(l) : l[k].phase \in TerminalPhase
<1>1. ASSUME NEW p, NEW c, p \notin TerminalPhase,
             lifecycle' = Append(lifecycle, Update(p, c))
      PROVE  HasTerminal(lifecycle') => HasTerminal(lifecycle)
  <2>1. /\ Len(lifecycle') = Len(lifecycle) + 1
        /\ Len(lifecycle) \in Nat
        /\ \A k \in 1..Len(lifecycle) : lifecycle'[k] = lifecycle[k]
        /\ lifecycle'[Len(lifecycle) + 1].phase = p
    BY <1>1 DEF TypeOK, Update
  <2>2. QED
    BY <1>1, <2>1
<1>2. CASE Start \/ Announce
  <2>1. HasTerminal(lifecycle') => HasTerminal(lifecycle)
    BY <1>1, <1>2 DEF Start, Announce, TerminalPhase
  <2>2. QED
    BY <1>2, <2>1 DEF Start, Announce, Ending, Ended
<1>3. CASE CreateTasks
  BY <1>3 DEF CreateTasks, Ending, Ended
<1>4. CASE GatherReturns
  BY <1>4 DEF GatherReturns, Ending, Ended, Placed, Unfinished, Settled
<1>5. CASE GatherRaises
  BY <1>5 DEF GatherRaises, Ending, Ended
<1>6. CASE Drained
  BY <1>6 DEF Drained, Ending, Ended, Cancellation
<1>7. CASE Finish
  BY <1>7 DEF Finish, Ending, Ended
<1>8. CASE ReportFails
  BY <1>8 DEF ReportFails, Ending, Ended
<1>9. CASE AnnounceFails
  BY <1>9 DEF AnnounceFails, Ending, Ended
<1>10. QED
  BY <1>2, <1>3, <1>4, <1>5, <1>6, <1>7, <1>8, <1>9 DEF CommandStep

LEMMA EndingCorrect == Spec => []Ending
<1>1. Init => Ending
  BY DEF Init, Ending
<1>2. TypeOK /\ Placed /\ Ending /\ [Next]_vars => Ending'
  <2> SUFFICES ASSUME TypeOK, Placed, Ending, [Next]_vars PROVE Ending'
    OBVIOUS
  <2>1. CASE CancelTasks \/ CancelCommand
    BY <2>1 DEF CancelTasks, CancelCommand, Ending, itemVars
  <2>2. CASE UNCHANGED vars
    BY <2>2 DEF vars, commandVars, itemVars, Ending
  <2>3. QED
    BY <2>1, <2>2, EndingItem, EndingCommand DEF Next, Terminated
<1>3. QED
  BY <1>1, <1>2, TypeCorrect, PlacedCorrect, PTL DEF Spec

(* TerminalIsLast: after the terminal phase the caller hears nothing more  *)
(* of the batch, and its counters no longer move.                          *)
THEOREM TerminalPhaseIsLast == Spec => TerminalIsLast
<1>1. ASSUME TypeOK, Placed, Ending, [Next]_vars,
             \E k \in 1..Len(lifecycle) : lifecycle[k].phase \in TerminalPhase
      PROVE  UNCHANGED <<lifecycle, advanced, delivered, counts>>
  <2> USE DEF commandVars, itemVars, reportVars
  <2>1. command \in {"closing"} \cup Ended /\ Unfinished = {}
    BY <1>1 DEF Ending, Placed, NoOrphans
  <2>2. CASE CommandStep
    BY <2>1, <2>2 DEF CommandStep, Start, Announce, CreateTasks, GatherReturns,
       GatherRaises, Drained, Finish, ReportFails, AnnounceFails, Ended
  <2>3. CASE CancelTasks \/ CancelCommand \/ UNCHANGED vars
    BY <2>3 DEF CancelTasks, CancelCommand, vars
  <2>4. ~ \E i \in Items : ItemStep(i)
    BY <1>1, <2>1, ItemFrame
  <2>5. QED
    BY <1>1, <2>2, <2>3, <2>4 DEF Next, Terminated
<1>2. TypeOK /\ Placed /\ Ending /\ [Next]_vars =>
        [(\E k \in 1..Len(lifecycle) : lifecycle[k].phase \in TerminalPhase)
           => UNCHANGED <<lifecycle, advanced, delivered, counts>>]_vars
  BY <1>1
<1>3. QED
  BY <1>2, TypeCorrect, PlacedCorrect, EndingCorrect, PTL DEF Spec, TerminalIsLast

(* NoWorkAfterFailure: once _gather saw an exception no operation starts.  *)
THEOREM NothingStartsAfterFailure == Spec => NoWorkAfterFailure
<1>1. ASSUME TypeOK, Placed, [Next]_vars, command = "draining"
      PROVE  \A i \in Running' : i \in Running
  <2>1. Unfinished \subseteq cancelling
    BY <1>1 DEF Placed
  <2>2. ASSUME NEW i \in Items, ItemStep(i) PROVE Running' \subseteq Running
    BY <1>1, <2>1, <2>2, ItemFrame DEF TypeOK, Running
  <2>3. CASE UNCHANGED task
    BY <2>3 DEF Running
  <2>4. CASE CommandStep \/ CancelTasks \/ CancelCommand \/ UNCHANGED vars
    BY <1>1, <2>3, <2>4 DEF CommandStep, Start, Announce, CreateTasks,
       GatherReturns, GatherRaises, Drained, Finish, ReportFails,
       AnnounceFails, CancelTasks, CancelCommand, vars, itemVars
  <2>5. QED
    BY <1>1, <2>2, <2>4 DEF Next, Terminated
<1>2. TypeOK /\ Placed /\ [Next]_vars =>
        [command = "draining" => \A i \in Running' : i \in Running]_vars
  BY <1>1
<1>3. QED
  BY <1>2, TypeCorrect, PlacedCorrect, PTL DEF Spec, NoWorkAfterFailure

-----------------------------------------------------------------------------
(* A batch that returns, and the contract with its caller.                 *)

(* Each counter counts the reported items with its outcome.                *)
With(o) == {i \in Reported : outcome[i] = o}
Books == \A o \in Outcome : counts[o] = Cardinality(With(o))

LEMMA ReportedFinite == ASSUME TypeOK PROVE Reported \subseteq Items /\ IsFiniteSet(Reported)
<1>1. Reported \in SUBSET Items
  <2>1. advanced \in Seq([item : Items, completed : Nat])
    BY DEF TypeOK
  <2>2. ASSUME NEW k \in 1..Len(advanced) PROVE advanced[k].item \in Items
    <3>1. advanced[k] \in [item : Items, completed : Nat]
      BY <2>1, ElementOfSeq
    <3>2. QED
      BY <3>1
  <2>3. QED
    BY <2>2 DEF Reported
<1>2. QED
  BY <1>1, RunningFinite, FS_Subset

LEMMA BooksRecord ==
  ASSUME TypeOK, Books, NEW i \in Items, NEW o \in Outcome, Record(i, o),
         i \notin Reported, outcome' \in [Items -> Outcome \cup {"none"}],
         outcome'[i] = o, \A j \in Items \ {i} : outcome'[j] = outcome[j]
  PROVE  Books'
<1>1. Reported' = Reported \cup {i}
  <2>1. counts' \in [Outcome -> Nat]
    BY DEF Record, TypeOK
  <2>2. Total(counts') \in Nat
    BY <2>1, TotalType
  <2>3. QED
    BY <2>2, ReportedAfter DEF Record, TypeOK
<1>2. ASSUME NEW p \in Outcome PROVE counts'[p] = Cardinality(With(p)')
  <2>1. CASE p = o
    <3>1. With(p)' = With(p) \cup {i} /\ i \notin With(p)
      BY <1>1, <2>1, ReportedFinite DEF With
    <3>2. IsFiniteSet(With(p))
      BY ReportedFinite, FS_Subset DEF With
    <3>3. Cardinality(With(p)') = Cardinality(With(p)) + 1
      BY <3>1, <3>2, FS_AddElement
    <3>4. QED
      BY <2>1, <3>3 DEF Books, Record, TypeOK
  <2>2. CASE p # o
    <3>1. With(p)' = With(p)
      BY <1>1, <2>2, ReportedFinite DEF With
    <3>2. QED
      BY <2>2, <3>1 DEF Books, Record, TypeOK
  <2>3. QED
    BY <2>1, <2>2
<1>3. QED
  BY <1>2 DEF Books

LEMMA BooksItem ==
  ASSUME TypeOK, OutcomeKnown, Reporter, Books, NEW i \in Items, ItemStep(i)
  PROVE  Books'
<1> USE DEF reportVars
<1>1. ASSUME UNCHANGED <<counts, advanced>>,
             \A j \in Reported : outcome'[j] = outcome[j]
      PROVE  Books'
  <2>1. \A o \in Outcome : With(o)' = With(o)
    BY <1>1 DEF With, Reported
  <2>2. QED
    BY <1>1, <2>1 DEF Books
<1>2. ASSUME NEW o \in Outcome, OperationReturns(i, o) PROVE Books'
  <2>1. /\ i \notin Reported
        /\ outcome' = [outcome EXCEPT ![i] = o]
    BY <1>2 DEF OperationReturns, Reporter, Told
  <2>2. CASE Record(i, o)
    BY <2>1, <2>2, BooksRecord DEF TypeOK
  <2>3. CASE UNCHANGED reportVars
    BY <1>1, <2>1, <2>3, ReportedFinite DEF TypeOK
  <2>4. QED
    BY <1>2, <2>2, <2>3 DEF OperationReturns
<1>3. CASE AcquireLock(i)
  <2>1. /\ i \notin Reported
        /\ outcome[i] \in Outcome
        /\ outcome' = outcome
        /\ Record(i, outcome[i])
    BY <1>3 DEF AcquireLock, Reporter, Told, OutcomeKnown
  <2>2. QED
    BY <2>1, BooksRecord DEF TypeOK
<1>4. CASE \/ Admit(i) \/ ProgressReturns(i) \/ DeliveryReturns(i) \/ CallbackRaises(i)
           \/ \E e \in Failure : OperationRaises(i, e)
           \/ \E e \in Cancellation : CancelledAt(i, e)
  BY <1>1, <1>4 DEF Admit, ProgressReturns, DeliveryReturns, CallbackRaises,
     OperationRaises, CancelledAt
<1>5. QED
  BY <1>2, <1>3, <1>4 DEF ItemStep, OperationStep, ReportStep

LEMMA BooksCorrect == Spec => []Books
<1>1. Init => Books
  <2> SUFFICES ASSUME Init PROVE Books
    OBVIOUS
  <2>1. \A o \in Outcome : With(o) = {}
    BY DEF Init, With, Reported
  <2>2. QED
    BY <2>1, FS_EmptySet DEF Init, Books
<1>2. /\ TypeOK /\ OutcomeKnown /\ Reporter /\ Books /\ [Next]_vars
      => Books'
  <2> SUFFICES ASSUME TypeOK, OutcomeKnown, Reporter, Books, [Next]_vars
               PROVE  Books'
    OBVIOUS
  <2>1. ASSUME UNCHANGED <<counts, advanced, outcome>> PROVE Books'
    BY <2>1 DEF Books, With, Reported
  <2>2. CASE CommandStep \/ CancelTasks \/ CancelCommand \/ UNCHANGED vars
    BY <2>1, <2>2 DEF CommandStep, Start, Announce, CreateTasks, GatherReturns,
       GatherRaises, Drained, Finish, ReportFails, AnnounceFails,
       CancelTasks, CancelCommand, vars, itemVars, reportVars
  <2>3. QED
    BY <2>2, BooksItem DEF Next, Terminated
<1>3. QED
  BY <1>1, <1>2, TypeCorrect, ReporterCorrect, PTL DEF Spec

(* ReturnIsComplete: a batch that returns has reported and delivered every *)
(* item, and its summary counts exactly the outcomes of its results.       *)
THEOREM ReturnsAreComplete == Spec => []ReturnIsComplete
<1>1. TypeOK /\ Reporter /\ Ending /\ Books => ReturnIsComplete
  <2> SUFFICES ASSUME TypeOK, Reporter, Ending, Books, command = "returned"
               PROVE  /\ \A i \in Items : task[i] = "done"
                      /\ Handed = Items
                      /\ \A o \in Outcome :
                           counts[o] = Cardinality({i \in Items : outcome[i] = o})
    BY DEF ReturnIsComplete
  <2>1. \A i \in Items : task[i] = "done"
    BY DEF Ending
  <2>2. Reported = Items /\ Handed = Items
    BY <2>1, ReportedFinite DEF Reporter, Told
  <2>3. QED
    BY <2>1, <2>2 DEF Books, With
<1>2. QED
  BY <1>1, TypeCorrect, ReporterCorrect, EndingCorrect, BooksCorrect, PTL

-----------------------------------------------------------------------------
(* Refinement: every step of the batch is a step of the contract or leaves *)
(* what the caller sees as it is.                                          *)

LEMMA ContractItem ==
  ASSUME TypeOK, OutcomeKnown, Placed, Reporter, NEW i \in Items, ItemStep(i)
  PROVE  [Contract!Next]_Contract!vars
<1> USE DEF reportVars, Contract!Next, Contract!vars
<1>1. UNCHANGED command /\ command \notin Ended
  BY ItemFrame DEF Placed, NoOrphans, commandVars
<1>2. 0 \notin Items
  BY DEF Items
<1>3. ASSUME UNCHANGED <<lock, advanced, delivered>>
      PROVE  UNCHANGED Contract!vars
  BY <1>1, <1>3 DEF Reported, Handed
<1>4. ASSUME NEW o \in Outcome, Record(i, o), lock = 0, i \notin Reported
      PROVE  Contract!Report(i)
  <2>1. counts' \in [Outcome -> Nat]
    BY <1>4 DEF Record, TypeOK
  <2>2. Total(counts') \in Nat
    BY <2>1, TotalType
  <2>3. Reported' = Reported \cup {i}
    BY <1>4, <2>2, ReportedAfter DEF Record, TypeOK
  <2>4. lock' = i /\ Handed' = Handed
    BY <1>4 DEF Record, Handed
  <2>5. QED
    BY <1>1, <1>4, <2>3, <2>4 DEF Contract!Report
<1>5. ASSUME UNCHANGED <<advanced, delivered>>, lock = i, lock' = 0
      PROVE  Contract!Release
  BY <1>1, <1>2, <1>5 DEF Contract!Release, Reported, Handed
<1>6. ASSUME NEW o \in Outcome, OperationReturns(i, o)
      PROVE  [Contract!Next]_Contract!vars
  BY <1>3, <1>4, <1>6 DEF OperationReturns, Reporter, Told
<1>7. CASE AcquireLock(i)
  BY <1>4, <1>7 DEF AcquireLock, Reporter, Told, OutcomeKnown
<1>8. CASE ProgressReturns(i)
  <2>1. lock = i /\ i \notin Handed /\ UNCHANGED <<lock, advanced>>
    BY <1>8 DEF ProgressReturns, Reporter, ReportsSerialised, Told
  <2>2. Handed' = Handed \cup {i} /\ Reported' = Reported
    BY <1>8, HandedAfter DEF ProgressReturns, TypeOK, Reported
  <2>3. Contract!Deliver
    BY <1>1, <1>2, <2>1, <2>2 DEF Contract!Deliver
  <2>4. QED
    BY <2>3
<1>9. CASE \/ DeliveryReturns(i) \/ CallbackRaises(i)
           \/ \E e \in Cancellation : CancelledAt(i, e)
  BY <1>3, <1>5, <1>9 DEF DeliveryReturns, CallbackRaises, CancelledAt, ReleaseLock
<1>10. CASE Admit(i) \/ \E e \in Failure : OperationRaises(i, e)
  BY <1>3, <1>10 DEF Admit, OperationRaises
<1>11. QED
  BY <1>6, <1>7, <1>8, <1>9, <1>10 DEF ItemStep, OperationStep, ReportStep

LEMMA ContractCommand ==
  ASSUME TypeOK, Placed, Reporter, Ending, CommandStep
  PROVE  [Contract!Next]_Contract!vars
<1> USE DEF itemVars, reportVars, Contract!Next, Contract!vars
<1>1. UNCHANGED <<lock, advanced, delivered, Reported, Handed>>
  BY DEF CommandStep, Start, Announce, CreateTasks, GatherReturns, GatherRaises,
     Drained, Finish, ReportFails, AnnounceFails, Reported, Handed
<1>2. Unfinished = {} => lock = 0
  BY DEF Reporter, ReportsSerialised, TypeOK, Unfinished, Settled
<1>3. CASE command' \notin Ended
  <2>1. command \notin Ended
    BY DEF CommandStep, Start, Announce, CreateTasks, GatherReturns,
       GatherRaises, Drained, Finish, ReportFails, AnnounceFails, Ended
  <2>2. QED
    BY <1>1, <1>3, <2>1
<1>4. ASSUME command' = "raised", command \in {"starting", "closing"}
      PROVE  Contract!Raise
  <2>1. lock = 0
    BY <1>2, <1>4 DEF Placed, NoOrphans, Unfinished
  <2>2. QED
    BY <1>1, <1>4, <2>1 DEF Contract!Raise, Ended
<1>5. ASSUME Finish, error = "none" PROVE Contract!Return
  <2>1. \A i \in Items : task[i] = "done"
    BY <1>5 DEF Finish, Ending
  <2>2. lock = 0 /\ Handed = Items
    BY <2>1, <1>2, ReportedFinite DEF Unfinished, Settled, Reporter, Told
  <2>3. QED
    BY <1>1, <1>5, <2>2 DEF Finish, Contract!Return, Ended
<1>6. CASE Finish
  BY <1>4, <1>5, <1>6 DEF Finish
<1>7. CASE ReportFails
  BY <1>4, <1>7 DEF ReportFails
<1>8. QED
  BY <1>3, <1>6, <1>7 DEF CommandStep, Start, Announce, CreateTasks,
     GatherReturns, GatherRaises, Drained, AnnounceFails, Ended

(* KeepsContract: a batch, of any size and however often it is cancelled,  *)
(* implements the contract with its caller.                                *)
THEOREM ContractIsKept == Spec => KeepsContract
<1>1. Init => Contract!Init
  BY DEF Init, Contract!Init, Reported, Handed, Ended
<1>2. /\ TypeOK /\ OutcomeKnown /\ Placed /\ Reporter /\ Ending /\ [Next]_vars
      => [Contract!Next]_Contract!vars
  <2> SUFFICES ASSUME TypeOK, OutcomeKnown, Placed, Reporter, Ending, [Next]_vars
               PROVE  [Contract!Next]_Contract!vars
    OBVIOUS
  <2>1. CASE CancelTasks \/ CancelCommand \/ UNCHANGED vars
    BY <2>1 DEF CancelTasks, CancelCommand, vars, commandVars, itemVars,
       reportVars, Contract!vars, Reported, Handed
  <2>2. QED
    BY <2>1, ContractItem, ContractCommand DEF Next, Terminated
<1>3. QED
  BY <1>1, <1>2, TypeCorrect, PlacedCorrect, ReporterCorrect, EndingCorrect, PTL
     DEF Spec, KeepsContract, Contract!Spec

-----------------------------------------------------------------------------
(* What the liveness properties rest on: something can go on in every      *)
(* state, and only finitely many steps are taken.                          *)

(* The command's own coroutine can go on (CommandStep): it awaits only a   *)
(* callback, or its gather is done or was interrupted.                     *)
CommandGoesOn ==
  \/ command \in {"idle", "starting", "announcing", "closing"}
  \/ command = "gathering" /\ (interrupted \/ gathered # "none" \/ Unfinished = {})
  \/ command = "draining" /\ Unfinished = {}

(* An item's task can go on without its operation: it is to be cancelled   *)
(* (CancelledAt), is next at the semaphore (Admit), gets the lock or only  *)
(* awaits a callback (ReportStep).                                         *)
ItemGoesOn(i) ==
  \/ i \in cancelling
  \/ task[i] = "queued" /\ permits > 0 /\ \A j \in Items : j < i => task[j] # "queued"
  \/ task[i] = "completing" /\ lock = 0
  \/ task[i] \in {"reporting", "delivering"}

(* Nobody waits for somebody who waits: in a batch that has not ended the  *)
(* command, an item or the operation of an item can go on.                 *)
NeverStuck ==
  command \notin Ended =>
    \/ CommandGoesOn
    \/ \E i \in Items : ItemGoesOn(i) \/ task[i] = "running"

(* Once the caller cancelled, or an item has raised, what goes on is not   *)
(* an operation that has to return by itself.                              *)
StopIsHeard ==
  (cancels > 0 \/ gathered # "none") /\ command \notin Ended =>
    CommandGoesOn \/ \E i \in Items : i \in cancelling

LEMMA FirstItem ==
  ASSUME NEW some \in SUBSET Items, some # {}
  PROVE  \E i \in some : \A j \in Items : j < i => j \notin some
<1>1. PICK i \in some : \A j \in some : ~(<<j, i>> \in OpToRel(<, Nat))
  <2>1. IsWellFoundedOn(OpToRel(<, Nat), Nat)
    BY NatLessThanWellFounded
  <2>2. some \in SUBSET Nat
    BY DEF Items
  <2>3. QED
    BY <2>1, <2>2, WFMin
<1>2. ASSUME NEW j \in Items, j < i PROVE j \notin some
  <2>1. i \in Nat /\ j \in Nat
    BY <1>2 DEF Items
  <2>2. <<j, i>> \in OpToRel(<, Nat)
    BY <1>2, <2>1 DEF OpToRel
  <2>3. QED
    BY <1>1, <2>2
<1>3. QED
  BY <1>1, <1>2

LEMMA SomethingGoesOn ==
  ASSUME TypeOK, Placed, ReportsSerialised, ConcurrencyBound
  PROVE  NeverStuck
<1> SUFFICES ASSUME command \notin Ended, ~CommandGoesOn, Running = {}
             PROVE  \E i \in Items : ItemGoesOn(i)
  BY DEF NeverStuck, Running
<1>1. command \in {"gathering", "draining"} /\ Unfinished # {}
  BY DEF TypeOK, CommandPlace, Ended, CommandGoesOn
<1>2. CASE \E i \in Items : i \in cancelling \/ task[i] \in {"reporting", "delivering"}
  BY <1>2 DEF ItemGoesOn
<1>3. CASE \A i \in Items : task[i] \notin {"reporting", "delivering"}
  <2>1. lock = 0
    BY <1>3 DEF ReportsSerialised, TypeOK
  <2>2. CASE \E i \in Items : task[i] = "completing"
    BY <2>1, <2>2 DEF ItemGoesOn
  <2>3. CASE \A i \in Items : task[i] # "completing"
    <3>1. PICK i \in Unfinished : \A j \in Items : j < i => j \notin Unfinished
      <4>1. Unfinished \in SUBSET Items
        BY DEF Unfinished
      <4>2. QED
        BY <1>1, <4>1, FirstItem
    <3>2. task[i] = "queued"
      <4>1. task[i] # "running"
        BY <3>1 DEF Running, Unfinished
      <4>2. task[i] \in TaskPlace
        BY <3>1 DEF TypeOK, Unfinished
      <4>3. QED
        BY <1>3, <2>3, <3>1, <4>1, <4>2 DEF TaskPlace, Unfinished, Settled
    <3>3. \A j \in Items : j < i => task[j] # "queued"
      BY <3>1 DEF Unfinished, Settled
    <3>4. permits > 0
      BY FS_EmptySet DEF ConcurrencyBound, TypeOK
    <3>5. QED
      BY <3>1, <3>2, <3>3, <3>4 DEF ItemGoesOn, Unfinished
  <2>4. QED
    BY <2>2, <2>3
<1>4. QED
  BY <1>2, <1>3

(* NeverStuck: no deadlock of semaphore, lock, gather and callbacks, in a  *)
(* batch of any size and however it is cancelled.                          *)
THEOREM BatchesAreNeverStuck == Spec => []NeverStuck
<1>1. TypeOK /\ Placed /\ ReportsSerialised /\ ConcurrencyBound => NeverStuck
  BY SomethingGoesOn
<1>2. QED
  BY <1>1, TypeCorrect, PlacedCorrect, ReportsAreSerialised, ConcurrencyIsBounded, PTL

(* Where a cancellation of the caller is: with the command, or with every  *)
(* task that is not settled, until the gather has taken an exception.      *)
Heard ==
  /\ command = "idle" => cancels = 0
  /\ command \in {"starting", "announcing"} /\ cancels > 0 => interrupted
  /\ command = "gathering" /\ cancels > 0 /\ gathered = "none" /\ ~interrupted
       => Unfinished \subseteq cancelling

LEMMA HeardStep == ASSUME TypeOK, Placed, Ending, Heard, [Next]_vars PROVE Heard'
<1> USE DEF commandVars, itemVars, reportVars
<1>1. ASSUME NEW i \in Items, ItemStep(i) PROVE Heard'
  <2>1. /\ UNCHANGED <<command, interrupted, cancels>>
        /\ Unfinished' \subseteq Unfinished
        /\ command \notin {"idle", "starting", "announcing"}
    BY <1>1, ItemFrame DEF TypeOK, Placed, Unfinished, Settled
  <2>2. ASSUME Unfinished \subseteq cancelling PROVE gathered' # "none"
    <3>1. i \in cancelling
      BY <1>1, <2>2, ItemFrame
    <3>2. PICK e \in Cancellation : CancelledAt(i, e)
      BY <1>1, <3>1 DEF ItemStep, OperationStep, ReportStep, Admit, OperationReturns,
         OperationRaises, AcquireLock, ProgressReturns, DeliveryReturns, CallbackRaises
    <3>3. QED
      BY <3>2 DEF CancelledAt, Settle, Cancellation
  <2>3. gathered # "none" => gathered' = gathered
    BY <1>1 DEF ItemStep, OperationStep, ReportStep, Admit, OperationReturns,
       OperationRaises, AcquireLock, ProgressReturns, DeliveryReturns, CallbackRaises,
       CancelledAt, Settle
  <2>4. QED
    BY <2>1, <2>2, <2>3 DEF Heard
<1>2. CASE CommandStep
  <2>1. CASE Start \/ Announce \/ CreateTasks
    <3>1. ~(cancels > 0) /\ cancels \in Nat
      <4>1. command = "idle" \/ (command \in {"starting", "announcing"} /\ ~interrupted)
        BY <2>1 DEF Start, Announce, CreateTasks
      <4>2. cancels \in Nat
        BY DEF TypeOK
      <4>3. QED
        BY <4>1, <4>2 DEF Heard
    <3>2. cancels' = 0
      <4>1. cancels' = cancels
        BY <2>1 DEF Start, Announce, CreateTasks
      <4>2. QED
        BY <3>1, <4>1
    <3>3. QED
      BY <3>2 DEF Heard
  <2>2. ASSUME command' \in {"draining", "closing"} \cup Ended PROVE Heard'
    BY <2>2 DEF Heard, Ended
  <2>3. QED
    BY <1>2, <2>1, <2>2 DEF CommandStep, GatherReturns, GatherRaises, Drained, Finish,
       ReportFails, AnnounceFails, Ended
<1>3. CASE CancelTasks \/ CancelCommand
  BY <1>3 DEF CancelTasks, CancelCommand, CancelRequest, Heard, Ended, TypeOK, Unfinished
<1>4. CASE UNCHANGED vars
  BY <1>4 DEF vars, Heard, Unfinished
<1>5. QED
  BY <1>1, <1>2, <1>3, <1>4 DEF Next, Terminated

(* StopIsHeard: a batch that was cancelled, or has an item that raised,    *)
(* waits for no operation to return by itself.                             *)
THEOREM StopsAreHeard == Spec => []StopIsHeard
<1>1. Init => Heard
  BY DEF Init, Heard
<1>2. TypeOK /\ Placed /\ Ending /\ Heard /\ [Next]_vars => Heard'
  BY HeardStep
<1>3. TypeOK /\ Placed /\ Heard => StopIsHeard
  <2> SUFFICES ASSUME TypeOK, Placed, Heard, cancels > 0 \/ gathered # "none",
                      command \notin Ended, ~CommandGoesOn
               PROVE  \E i \in Items : i \in cancelling
    BY DEF StopIsHeard
  <2>1. command \in {"gathering", "draining"} /\ Unfinished # {}
    BY DEF TypeOK, CommandPlace, Ended, CommandGoesOn
  <2>2. Unfinished \subseteq cancelling
    BY <2>1 DEF Placed, Heard, CommandGoesOn
  <2>3. QED
    BY <2>1, <2>2 DEF Unfinished
<1>4. QED
  BY <1>1, <1>2, <1>3, TypeCorrect, PlacedCorrect, EndingCorrect, PTL DEF Spec

(* How far a command and an item's task have got.                          *)
CommandRank ==
  [idle |-> 0, starting |-> 1, announcing |-> 2, gathering |-> 3, draining |-> 4,
   closing |-> 5, returned |-> 6, raised |-> 6]
TaskRank ==
  [absent |-> 0, queued |-> 1, running |-> 2, completing |-> 3, reporting |-> 4,
   delivering |-> 5, done |-> 6, failed |-> 6, cancelled |-> 6]

Reached(k) == {i \in Items : k <= TaskRank[task[i]]}

(* What has been done so far, and the most there is to do: six steps of    *)
(* the command and of each item, and the cancellations of the caller.      *)
Work ==
  CommandRank[command] + cancels
    + Cardinality(Reached(1)) + Cardinality(Reached(2)) + Cardinality(Reached(3))
    + Cardinality(Reached(4)) + Cardinality(Reached(5)) + Cardinality(Reached(6))
MostWork == 6 + MaxCancels + 6 * N

LEMMA Ranks ==
  /\ \A p \in CommandPlace : CommandRank[p] \in 0..6
  /\ \A p \in TaskPlace : TaskRank[p] \in 0..6
  BY DEF CommandPlace, TaskPlace, CommandRank, TaskRank

LEMMA ItemsBounded ==
  ASSUME NEW some \in SUBSET Items
  PROVE  IsFiniteSet(some) /\ Cardinality(some) \in 0..N
<1>1. IsFiniteSet(Items) /\ Cardinality(Items) = N
  BY FS_Interval DEF Items
<1>2. IsFiniteSet(some) /\ Cardinality(some) <= N
  BY <1>1, FS_Subset
<1>3. QED
  BY <1>2, FS_CardinalityType

LEMMA ReachedBounded ==
  \A k \in 1..6 : Cardinality(Reached(k)) \in 0..N /\ Cardinality(Reached(k)') \in 0..N
<1>1. \A k \in 1..6 : Reached(k) \in SUBSET Items /\ Reached(k)' \in SUBSET Items
  BY DEF Reached
<1>2. QED
  BY <1>1, ItemsBounded

(* No item falls back.                                                     *)
Onward ==
  \A i \in Items : TaskRank[task[i]] <= TaskRank[task'[i]]

LEMMA ReachedGrows ==
  ASSUME Onward, NEW k \in 1..6, TypeOK, TypeOK'
  PROVE  /\ Reached(k) \in SUBSET Reached(k)'
         /\ IsFiniteSet(Reached(k)')
         /\ Cardinality(Reached(k)) <= Cardinality(Reached(k)')
<1>1. ASSUME NEW i \in Reached(k) PROVE i \in Reached(k)'
  <2>1. i \in Items /\ TaskRank[task[i]] \in 0..6 /\ TaskRank[task'[i]] \in 0..6
    BY Ranks DEF Reached, TypeOK
  <2>2. QED
    BY <2>1 DEF Reached, Onward
<1>2. IsFiniteSet(Reached(k)')
  <2>1. Reached(k)' \in SUBSET Items
    BY DEF Reached
  <2>2. QED
    BY <2>1, ItemsBounded
<1>3. QED
  BY <1>1, <1>2, FS_Subset

LEMMA StandsStill == ASSUME TypeOK, UNCHANGED task PROVE Onward
<1>1. \A i \in Items : TaskRank[task[i]] \in 0..6
  BY Ranks DEF TypeOK
<1>2. QED
  BY <1>1 DEF Onward

LEMMA ItemAdvances ==
  ASSUME TypeOK, TypeOK', Placed, NEW i \in Items, ItemStep(i)
  PROVE  Onward /\ TaskRank[task[i]] < TaskRank[task'[i]]
<1> SUFFICES TaskRank[task[i]] < TaskRank[task'[i]]
  <2>1. \A j \in Items \ {i} : task'[j] = task[j]
    BY ItemFrame DEF TypeOK
  <2>2. \A j \in Items : TaskRank[task[j]] \in 0..6
    BY Ranks DEF TypeOK
  <2>3. ASSUME NEW j \in Items \ {i} PROVE TaskRank[task[j]] <= TaskRank[task'[j]]
    <3>1. task'[j] = task[j] /\ TaskRank[task[j]] \in 0..6
      BY <2>1, <2>2
    <3>2. QED
      BY <3>1
  <2>4. TaskRank[task[i]] <= TaskRank[task'[i]]
    <3>1. TaskRank[task[i]] \in 0..6 /\ TaskRank[task'[i]] \in 0..6
      BY <2>2, Ranks DEF TypeOK
    <3>2. QED
      BY <3>1
  <2>5. QED
    BY <2>3, <2>4 DEF Onward
<1> USE DEF TypeOK, TaskRank
<1>1. CASE Admit(i) \/ AcquireLock(i) \/ ProgressReturns(i) \/ DeliveryReturns(i)
  BY <1>1 DEF Admit, AcquireLock, ProgressReturns, DeliveryReturns
<1>2. CASE \E o \in Outcome : OperationReturns(i, o)
  <2>1. task[i] = "running" /\ task'[i] \in {"completing", "reporting"}
    BY <1>2 DEF OperationReturns
  <2>2. QED
    BY <2>1
<1>3. CASE CallbackRaises(i) \/ \E e \in Failure : OperationRaises(i, e)
  BY <1>3 DEF CallbackRaises, OperationRaises, Settle
<1>4. CASE \E e \in Cancellation : CancelledAt(i, e)
  <2>1. task'[i] = "cancelled" /\ task[i] \in TaskPlace \ Settled
    BY <1>4, ItemFrame DEF CancelledAt, Settle, Unfinished
  <2>2. QED
    BY <2>1 DEF TaskPlace, Settled
<1>5. QED
  BY <1>1, <1>2, <1>3, <1>4 DEF ItemStep, OperationStep, ReportStep

LEMMA CommandAdvances ==
  ASSUME TypeOK, Placed, CommandStep
  PROVE  Onward /\ CommandRank[command] < CommandRank[command'] /\ UNCHANGED cancels
<1>1. Onward
  <2>1. CASE CreateTasks
    BY <2>1 DEF CreateTasks, Placed, Onward, TaskRank
  <2>2. CASE UNCHANGED task
    BY <2>2, StandsStill
  <2>3. QED
    BY <2>1, <2>2 DEF CommandStep, Start, Announce, GatherReturns, GatherRaises,
       Drained, Finish, ReportFails, AnnounceFails, itemVars
<1>2. UNCHANGED cancels
  BY DEF CommandStep, Start, Announce, CreateTasks, GatherReturns, GatherRaises,
     Drained, Finish, ReportFails, AnnounceFails
<1>3. CommandRank[command] < CommandRank[command']
  <2>1. \/ command = "idle" /\ command' = "starting"
        \/ command = "starting" /\ command' \in {"announcing", "raised"}
        \/ command = "announcing" /\ command' \in {"gathering", "closing"}
        \/ command = "gathering" /\ command' \in {"draining", "closing"}
        \/ command = "draining" /\ command' = "closing"
        \/ command = "closing" /\ command' \in {"returned", "raised"}
    BY DEF CommandStep, Start, Announce, CreateTasks, GatherReturns, GatherRaises,
       Drained, Finish, ReportFails, AnnounceFails
  <2>2. QED
    BY <2>1 DEF CommandRank
<1>4. QED
  BY <1>1, <1>2, <1>3

LEMMA WorkBounded == ASSUME TypeOK PROVE Work \in 0..MostWork
<1>1. /\ Cardinality(Reached(1)) \in 0..N /\ Cardinality(Reached(2)) \in 0..N
      /\ Cardinality(Reached(3)) \in 0..N /\ Cardinality(Reached(4)) \in 0..N
      /\ Cardinality(Reached(5)) \in 0..N /\ Cardinality(Reached(6)) \in 0..N
  BY ReachedBounded
<1>2. CommandRank[command] \in 0..6 /\ cancels \in 0..MaxCancels
  BY Ranks DEF TypeOK
<1>3. QED
  BY <1>1, <1>2 DEF Work, MostWork

LEMMA WorkGrows ==
  ASSUME TypeOK, TypeOK', Placed, Next, ~UNCHANGED vars
  PROVE  Work' > Work /\ Work' \in Nat
<1>1. \A k \in 1..6 : Cardinality(Reached(k)) \in Nat /\ Cardinality(Reached(k)') \in Nat
  BY ReachedBounded
<1>2. Onward => \A k \in 1..6 : Cardinality(Reached(k)) <= Cardinality(Reached(k)')
  BY ReachedGrows
<1>3. /\ CommandRank[command] \in Nat /\ cancels \in Nat
      /\ CommandRank[command'] \in Nat /\ cancels' \in Nat
  <2>1. cancels \in 0..MaxCancels /\ cancels' \in 0..MaxCancels
    BY DEF TypeOK
  <2>2. CommandRank[command] \in 0..6 /\ CommandRank[command'] \in 0..6
    BY Ranks DEF TypeOK
  <2>3. QED
    BY <2>1, <2>2
<1>4. CASE CommandStep
  BY <1>1, <1>2, <1>3, <1>4, CommandAdvances DEF Work
<1>5. CASE CancelTasks \/ CancelCommand
  <2>1. Onward
    <3>1. task' = task
      BY <1>5 DEF CancelTasks, CancelCommand, itemVars
    <3>2. QED
      BY <3>1, StandsStill
  <2>2. command' = command /\ cancels' = cancels + 1
    BY <1>5 DEF CancelTasks, CancelCommand, CancelRequest
  <2>3. QED
    BY <1>1, <1>2, <1>3, <2>1, <2>2 DEF Work
<1>6. ASSUME NEW i \in Items, ItemStep(i) PROVE Work' > Work
  <2>1. Onward /\ TaskRank[task[i]] < TaskRank[task'[i]]
    BY <1>6, ItemAdvances
  <2>2. PICK k \in 1..6 : i \in Reached(k)' /\ i \notin Reached(k)
    <3>1. TaskRank[task[i]] \in 0..6 /\ TaskRank[task'[i]] \in 0..6
      BY Ranks DEF TypeOK
    <3>2. TaskRank[task'[i]] \in 1..6
      BY <2>1, <3>1
    <3>3. QED
      BY <2>1, <3>1, <3>2 DEF Reached
  <2>3. Cardinality(Reached(k)) < Cardinality(Reached(k)')
    <3>1. Reached(k) \in SUBSET Reached(k)' /\ IsFiniteSet(Reached(k)')
      BY <2>1, ReachedGrows
    <3>2. Cardinality(Reached(k)) # Cardinality(Reached(k)')
      BY <2>2, <3>1, FS_Subset
    <3>3. QED
      BY <1>1, <1>2, <2>1, <3>2
  <2>4. command' = command /\ cancels' = cancels
    BY <1>6, ItemFrame DEF commandVars
  <2>5. k \in {1, 2, 3, 4, 5, 6}
    OBVIOUS
  <2>6. QED
    BY <1>1, <1>2, <1>3, <2>1, <2>3, <2>4, <2>5 DEF Work
<1>7. Work' \in Nat
  BY <1>1, <1>3 DEF Work
<1>8. QED
  BY <1>4, <1>5, <1>6, <1>7 DEF Next, Terminated

(* Every step of a batch is work done, and there is only so much of it: a  *)
(* batch of N items takes at most 6 + 6N steps and one for each            *)
(* cancellation, whatever order they come in.  As it is never stuck, it    *)
(* ends when what can go on does.                                          *)
THEOREM BatchesTakeBoundedSteps ==
  Spec => [](Work \in 0..MostWork) /\ [][Work' > Work]_vars
<1>1. TypeOK => Work \in 0..MostWork
  BY WorkBounded
<1>2. TypeOK /\ TypeOK' /\ Placed /\ [Next]_vars => [Work' > Work]_vars
  BY WorkGrows
<1>3. QED
  BY <1>1, <1>2, TypeCorrect, PlacedCorrect, PTL DEF Spec
=============================================================================
