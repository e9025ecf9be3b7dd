----------------------------- MODULE Tenant_proofs -----------------------------
(***************************************************************************)
(* Proofs about the commands that change metadata of the tenant:           *)
(* Partitioning and TableStatistics.                                       *)
(***************************************************************************)
EXTENDS Partitioning, TableStatistics, TLAPS

(***************************************************************************)
(* Partitioning.  A caller that nobody has overtaken finds its view as it  *)
(* was or as it wants it (Goal), whatever is lost and however often it asks*)
(* again, because locking and unlocking what it has locked or unlocked     *)
(* already changes nothing.                                                *)
(***************************************************************************)
(* What a request is, by its kind.                                         *)
LEMMA PartRequestKinds ==
  ASSUME NEW r \in Requests
  PROVE  /\ r.view \in Views
         /\ r.kind \in {"create", "delete", "lock", "unlock"}
         /\ r.kind = "create" => r \in CreateRequests
         /\ r.kind = "lock" => r.until \in Years
<1>1. CASE r \in CreateRequests
  BY <1>1 DEF CreateRequests
<1>2. CASE r \in DeleteRequests
  BY <1>2 DEF DeleteRequests
<1>3. CASE r \in LockRequests
  BY <1>3 DEF LockRequests
<1>4. CASE r \in UnlockRequests
  BY <1>4 DEF UnlockRequests
<1> QED BY <1>1, <1>2, <1>3, <1>4 DEF Requests

(* What requests write are documents.                                      *)
LEMMA NothingIsDocument == NoPartitioning \in Documents
BY DEF NoPartitioning, Documents, Columns, Ranges

LEMMA YearlyIsDocument ==
  ASSUME NEW r \in CreateRequests
  PROVE  YearlyPartitioning(r) \in Documents
<1>1. /\ r.column \in Columns /\ r.start \in Years /\ r.end \in Years
      /\ r.start..r.end \subseteq Years /\ Years \subseteq Nat
  BY YearsAssumption DEF CreateRequests
<1>2. {[low |-> y, high |-> y + 1] : y \in r.start..(r.end - 1)} \subseteq Ranges
  <2> SUFFICES ASSUME NEW y \in r.start..(r.end - 1)
               PROVE  [low |-> y, high |-> y + 1] \in Ranges
    OBVIOUS
  <2>1. y \in r.start..r.end /\ y + 1 \in r.start..r.end
    <3>1. r.start \in Nat /\ r.end \in Nat
      BY <1>1
    <3> QED BY <3>1
  <2> QED BY <1>1, <2>1 DEF Ranges
<1> QED BY <1>1, <1>2 DEF YearlyPartitioning, Documents

LEMMA LockedIsDocument ==
  ASSUME NEW p \in Documents, NEW r
  PROVE  Locked(r, p) \in Documents /\ Unlocked(p) \in Documents
BY DEF Locked, Unlocked, Documents

-----------------------------------------------------------------------------
(* The document a request aims at, from the one there was.                 *)
Goal(r, old) ==
  IF r.kind = "create" THEN YearlyPartitioning(r)
  ELSE IF r.kind = "delete" THEN NoPartitioning
  ELSE IF r.kind = "lock" THEN Locked(r, old)
  ELSE Unlocked(old)

(* Reaching it once more changes nothing.                                  *)
LEMMA GoalIsStable ==
  ASSUME NEW r \in Requests, NEW old \in Documents
  PROVE  Goal(r, Goal(r, old)) = Goal(r, old)
<1>1. Locked(r, Locked(r, old)) = Locked(r, old)
  BY DEF Locked, Documents
<1>2. Unlocked(Unlocked(old)) = Unlocked(old)
  BY DEF Unlocked, Documents
<1> QED BY <1>1, <1>2 DEF Goal

(* And it is what the request is for.                                      *)
LEMMA GoalFulfils ==
  ASSUME NEW r \in Requests, NEW old \in Documents
  PROVE  Fulfils(r, old, Goal(r, old))
<1>1. CASE r.kind = "create"
  <2> DEFINE new == YearlyPartitioning(r)
  <2>1. r \in CreateRequests
    BY <1>1, PartRequestKinds
  <2>2. r.start \in Nat /\ r.end \in Nat
    BY <2>1, YearsAssumption DEF CreateRequests
  <2>3. new.ranges = {[low |-> y, high |-> y + 1] : y \in r.start..(r.end - 1)}
    BY DEF YearlyPartitioning
  <2>4. ASSUME NEW y \in r.start..(r.end - 1)
        PROVE  \E s \in new.ranges : s.low <= y /\ y < s.high
    <3>1. [low |-> y, high |-> y + 1] \in new.ranges
      BY <2>3
    <3> QED BY <3>1, <2>2
  <2>5. ASSUME NEW s \in new.ranges
        PROVE  r.start <= s.low /\ s.high <= r.end /\ s.high = s.low + 1
    <3>1. PICK y \in r.start..(r.end - 1) : s = [low |-> y, high |-> y + 1]
      BY <2>3
    <3> QED BY <3>1, <2>2
  <2>6. Covers(new, r.start, r.end)
    BY <2>4, <2>5 DEF Covers
  <2>7. new.column = r.column /\ new.locked = {}
    BY DEF YearlyPartitioning
  <2> QED BY <1>1, <2>6, <2>7 DEF Fulfils, Goal
<1>2. CASE r.kind = "delete"
  BY <1>2 DEF Fulfils, Goal, NoPartitioning
<1>3. CASE r.kind = "lock"
  <2>1. r.until \in Nat
    BY <1>3, PartRequestKinds, YearsAssumption
  <2>2. /\ Locked(r, old).column = old.column
        /\ Locked(r, old).ranges = old.ranges
        /\ Locked(r, old).locked = {s \in old.ranges : s.low < r.until}
    BY DEF Locked, Documents
  <2>3. old.ranges \subseteq Ranges /\ \A s \in Ranges : s.low \in Nat
    <3>1. old.ranges \subseteq Ranges
      BY DEF Documents
    <3>2. Years \cup {NotAYear} \subseteq Nat
      BY YearsAssumption DEF NotAYear
    <3> QED BY <3>1, <3>2 DEF Ranges
  <2>4. Yearly(old) =>
          \A s \in old.ranges : s.low < r.until <=> s.high <= r.until
    BY <2>1, <2>3 DEF Yearly
  <2>5. Yearly(old) => {s \in old.ranges : s.low < r.until} =
                       {s \in old.ranges : s.high <= r.until}
    BY <2>4
  <2> QED BY <1>3, <2>2, <2>5 DEF Fulfils, Goal
<1>4. CASE r.kind = "unlock"
  BY <1>4 DEF Fulfils, Goal, Unlocked, Documents
<1> QED BY <1>1, <1>2, <1>3, <1>4, PartRequestKinds

-----------------------------------------------------------------------------
(* The variables keep their types.                                         *)
THEOREM PartitioningTypeCorrect == PartSpec => []PartTypeOK
<1>1. PartInit => PartTypeOK
  <2> SUFFICES ASSUME PartInit PROVE PartTypeOK
    OBVIOUS
  <2>1. partitioning \in [Views -> Documents]
    BY ExistingAssumption DEF PartInit
  <2> QED BY <2>1, NothingIsDocument, AttemptsAssumption DEF PartInit, PartTypeOK
<1>2. PartTypeOK /\ [PartNext]_partVars => PartTypeOK'
  <2> SUFFICES ASSUME PartTypeOK, [PartNext]_partVars PROVE PartTypeOK'
    OBVIOUS
  <2>0. CASE UNCHANGED partVars
    BY <2>0 DEF partVars, PartTypeOK
  <2> SUFFICES ASSUME NEW c \in Callers,
                      Begin(c) \/ Read(c) \/ WriteAccepted(c) \/ WriteRefused(c)
                        \/ Lost(c) \/ StrayApplied(c)
               PROVE  PartTypeOK'
    BY <2>0 DEF PartNext
  <2> DEFINE r == request[c]
             p == partitioning[r.view]
  <2>1. r \in Requests /\ r.view \in Views /\ p \in Documents
    BY PartRequestKinds DEF PartTypeOK
  <2>2. Document(c) \in Documents
    BY NothingIsDocument DEF Document, PartTypeOK
  <2>3. CASE Begin(c)
    <3>1. attempts[c] + 1 \in 0..MaxAttempts
      BY <2>3, AttemptsAssumption DEF Begin, PartTypeOK
    <3>2. before' \in [Callers -> Documents]
      BY <2>3, <2>1 DEF Begin, PartTypeOK
    <3> QED BY <2>3, <3>1, <3>2 DEF Begin, PartTypeOK, Go
  <2>4. CASE Read(c)
    <3>1. \/ \E document \in Documents : Writes(c, document)
          \/ \E status \in Statuses : ReturnsAtOnce(c, status)
      <4>1. CASE r.kind = "create" /\ CreateReads(c, p)
        <5>1. YearlyPartitioning(r) \in Documents
          BY <4>1, <2>1, PartRequestKinds, YearlyIsDocument
        <5> QED BY <4>1, <5>1 DEF CreateReads, Statuses, Kept
      <4>2. CASE r.kind = "lock" /\ LockReads(c, p)
        <5>1. Locked(r, p) \in Documents
          BY <2>1, LockedIsDocument
        <5> QED BY <4>2, <5>1 DEF LockReads, Statuses, Kept
      <4>3. CASE r.kind = "unlock" /\ UnlockReads(c, p)
        <5>1. Unlocked(p) \in Documents
          BY <2>1, LockedIsDocument
        <5> QED BY <4>3, <5>1 DEF UnlockReads, Statuses, Kept
      <4> QED BY <2>4, <4>1, <4>2, <4>3 DEF Read
    <3> QED BY <2>4, <3>1 DEF Read, PartTypeOK, Writes, ReturnsAtOnce, Ends, Go
  <2>5. CASE WriteAccepted(c)
    <3>1. Success(r) \in Statuses
      BY DEF Success, Statuses, Accepted
    <3> QED BY <2>5, <2>1, <2>2, <3>1
            DEF WriteAccepted, Applied, Ends, Go, PartTypeOK
  <2>6. CASE WriteRefused(c)
    BY <2>6 DEF WriteRefused, Ends, Go, PartTypeOK, Statuses
  <2>7. CASE Lost(c)
    <3>1. stray' \in [Callers -> SUBSET Documents]
      BY <2>7, <2>2 DEF Lost, PartTypeOK
    <3> QED BY <2>7, <3>1 DEF Lost, Ends, Go, PartTypeOK, Statuses
  <2>8. CASE StrayApplied(c)
    <3>1. PICK document \in stray[c] :
            /\ Applied(c, document)
            /\ stray' = [stray EXCEPT ![c] = @ \ {document}]
      BY <2>8 DEF StrayApplied
    <3>2. document \in Documents
      BY DEF PartTypeOK
    <3> QED BY <2>8, <2>1, <3>1, <3>2 DEF StrayApplied, Applied, PartTypeOK
  <2> QED BY <2>3, <2>4, <2>5, <2>6, <2>7, <2>8
<1> QED BY <1>1, <1>2, PTL DEF PartSpec

-----------------------------------------------------------------------------
(* What holds of a caller, next to its types: it begins with nothing on    *)
(* its way, and while nobody overtakes it, its view is as it was or as it  *)
(* aims at, whatever it writes or may still write is its aim, a success    *)
(* has reached it, a first attempt that says otherwise has changed         *)
(* nothing, and neither has a creation that found a partitioning.          *)
Now(c) == partitioning[request[c].view]
Aim(c) == Goal(request[c], before[c])

Alone(c) ==
  /\ Now(c) \in {before[c], Aim(c)}
  /\ stray[c] \subseteq {Aim(c)}
  /\ place[c] = "writing" => Document(c) = Aim(c)
  /\ answer[c] \in Accepted => Now(c) = Aim(c)
  /\ attempts[c] = 1 /\ answer[c] \notin Accepted \cup {"raised"} =>
       Now(c) = before[c] /\ stray[c] = {}
  /\ request[c].kind = "create" /\ before[c].ranges # {} /\ ~request[c].overwrite
       => place[c] # "writing" /\ Now(c) = before[c] /\ stray[c] = {}

Answered(c) ==
  /\ place[c] = "new" => stray[c] = {} /\ answer[c] = "none"
  /\ place[c] # "new" => attempts[c] # 0
  /\ place[c] \in {"reading", "writing"} /\ attempts[c] = 1 => answer[c] = "none"
  /\ answer[c] \in Accepted => place[c] = "ended"
  /\ place[c] # "new" /\ c \notin overtaken => Alone(c)

PartInv == \A c \in Callers : Answered(c)

(* A caller is not disturbed by another one, unless it is overtaken.       *)
LEMMA OthersUndisturbed ==
  ASSUME PartTypeOK, PartInv, NEW c \in Callers, NEW d \in Callers \ {c},
         UNCHANGED <<request, place[d], payload[d], stray[d], answer[d],
                     attempts[d], before[d]>>,
         \/ partitioning' = partitioning /\ overtaken' = overtaken
         \/ \E document \in Documents : Applied(c, document)
  PROVE  Answered(d)'
<1>1. request[c].view \in Views /\ request[d].view \in Views
  BY PartRequestKinds DEF PartTypeOK
<1>2. ASSUME place[d] # "new", d \notin overtaken' PROVE Alone(d)'
  <2>1. Now(d)' = Now(d) /\ d \notin overtaken
    BY <1>1, <1>2 DEF Applied, Now, PartTypeOK
  <2>2. Alone(d)
    BY <1>2, <2>1 DEF PartInv, Answered
  <2>3. Document(d)' = Document(d) /\ Aim(d)' = Aim(d)
    BY DEF Document, Aim
  <2> QED BY <2>1, <2>2, <2>3 DEF Alone
<1> QED BY <1>2 DEF PartInv, Answered

LEMMA PartInvHolds == PartSpec => []PartInv
<1>1. PartInit => PartInv
  BY DEF PartInit, PartInv, Answered, Accepted
<1>2. PartTypeOK /\ PartInv /\ [PartNext]_partVars => PartInv'
  <2> SUFFICES ASSUME PartTypeOK, PartInv, [PartNext]_partVars PROVE PartInv'
    OBVIOUS
  <2>0. CASE UNCHANGED partVars
    BY <2>0 DEF partVars, PartInv, Answered, Alone, Now, Aim, Document
  <2> SUFFICES ASSUME NEW c \in Callers,
                      Begin(c) \/ Read(c) \/ WriteAccepted(c) \/ WriteRefused(c)
                        \/ Lost(c) \/ StrayApplied(c)
               PROVE  PartInv'
    BY <2>0 DEF PartNext
  <2> DEFINE r == request[c]
             p == partitioning[r.view]
  <2>1. /\ r \in Requests /\ r.view \in Views /\ p \in Documents
        /\ r.kind \in {"create", "delete", "lock", "unlock"}
        /\ before[c] \in Documents /\ Document(c) \in Documents
    BY PartRequestKinds, NothingIsDocument DEF PartTypeOK, Document
  <2>2. Answered(c)
    BY DEF PartInv
  <2>3. ASSUME Answered(c)',
               \A d \in Callers \ {c} :
                 UNCHANGED <<request, place[d], payload[d], stray[d], answer[d],
                             attempts[d], before[d]>>,
               \/ partitioning' = partitioning /\ overtaken' = overtaken
               \/ \E document \in Documents : Applied(c, document)
        PROVE  PartInv'
    BY <2>3, OthersUndisturbed DEF PartInv
  <2>4. CASE Begin(c)
    <3>1. Answered(c)'
      <4>1. CASE place[c] = "new"
        BY <4>1, <2>4, <2>2, <2>1
           DEF Begin, Go, Answered, Alone, Now, Aim, PartTypeOK, Accepted, Document, Goal
      <4>2. CASE place[c] # "new"
        <5>1. answer[c] = "raised" /\ place[c] = "ended"
          BY <4>2, <2>4 DEF Begin
        <5>2. UNCHANGED <<Now(c), Aim(c), before, stray, answer, request,
                          overtaken>>
          BY <4>2, <2>4 DEF Begin, Now, Aim
        <5>3. /\ place'[c] \in {"reading", "writing"}
              /\ place'[c] = "writing" <=> r.kind = "delete"
          BY <2>4 DEF Begin, Go, PartTypeOK
        <5>5. attempts[c] \in Nat /\ attempts'[c] = attempts[c] + 1
          BY <2>4, AttemptsAssumption DEF Begin, PartTypeOK
        <5>4. place'[c] = "writing" => Document(c)' = Aim(c)
          BY <5>3, <2>4 DEF Document, Aim, Goal, Begin
        <5> QED BY <5>1, <5>2, <5>3, <5>4, <5>5, <2>2 DEF Answered, Alone, Accepted
      <4> QED BY <4>1, <4>2
    <3> QED BY <2>3, <2>4, <3>1 DEF Begin, Go, PartTypeOK
  <2>5. CASE Read(c)
    <3>1. /\ request' = request /\ Now(c)' = Now(c) /\ Aim(c)' = Aim(c)
          /\ UNCHANGED <<before, stray, overtaken, attempts>>
      BY <2>5 DEF Read, Now, Aim
    <3>2. place[c] = "reading" /\ answer[c] \notin Accepted
      BY <2>5, <2>2 DEF Read, Answered
    <3>3. \/ /\ \E status \in Kept \cup {"raised"} : Ends(c, status)
          \/ /\ Writes(c, Goal(r, p))
             /\ r.kind = "create" => p.ranges = {} \/ r.overwrite
      BY <2>5, <2>1
         DEF Read, CreateReads, LockReads, UnlockReads, ReturnsAtOnce, Goal, Kept
    <3>6. Answered(c)'
      <4>1. CASE \E status \in Kept \cup {"raised"} : Ends(c, status)
        <5>1. place'[c] = "ended" /\ answer'[c] \in Kept \cup {"raised"}
          BY <4>1 DEF Ends, Go, PartTypeOK
        <5>2. answer'[c] \notin Accepted
          BY <5>1 DEF Kept, Accepted
        <5> QED BY <3>1, <3>2, <5>1, <5>2, <2>2 DEF Answered, Alone, Accepted
      <4>2. CASE Writes(c, Goal(r, p)) /\ (r.kind = "create" => p.ranges = {} \/ r.overwrite)
        <5>1. place'[c] = "writing" /\ answer' = answer /\ payload'[c] = Goal(r, p)
          BY <4>2 DEF Writes, Go, PartTypeOK
        <5>2. Document(c)' = Goal(r, p)
          BY <5>1, <3>1 DEF Document, Goal
        <5>3. c \notin overtaken => Goal(r, p) = Aim(c)
          BY <3>2, <2>1, <2>2, GoalIsStable DEF Answered, Alone, Now, Aim
        <5> QED BY <3>1, <3>2, <4>2, <5>1, <5>2, <5>3, <2>2
                DEF Answered, Alone, Now, Accepted
      <4> QED BY <3>3, <4>1, <4>2
    <3> QED BY <2>3, <2>5, <3>6
            DEF Read, CreateReads, LockReads, UnlockReads, Writes, ReturnsAtOnce,
                Ends, Go, PartTypeOK
  <2>6. CASE WriteAccepted(c)
    <3>1. /\ place[c] = "writing" /\ place'[c] = "ended"
          /\ answer'[c] \in Accepted
          /\ Now(c)' = Document(c)
          /\ UNCHANGED <<Aim(c), before, stray, request, attempts>>
          /\ c \notin overtaken' <=> c \notin overtaken
      BY <2>6, <2>1
         DEF WriteAccepted, Applied, Ends, Go, PartTypeOK, Now, Aim, Success, Accepted
    <3>2. Answered(c)'
      BY <3>1, <2>2 DEF Answered, Alone, Accepted
    <3> QED BY <2>3, <2>6, <3>2, <2>1
            DEF WriteAccepted, Ends, Go, PartTypeOK
  <2>7. CASE WriteRefused(c)
    <3>1. /\ place[c] = "writing" /\ place'[c] = "ended"
          /\ answer'[c] = "failed"
          /\ UNCHANGED <<Now(c), Aim(c), before, stray, request, attempts, overtaken>>
      BY <2>7 DEF WriteRefused, Ends, Go, PartTypeOK, Now, Aim
    <3>2. Answered(c)'
      BY <3>1, <2>2 DEF Answered, Alone, Accepted
    <3> QED BY <2>3, <2>7, <3>2 DEF WriteRefused, Ends, Go, PartTypeOK
  <2>8. CASE Lost(c)
    <3>1. /\ place[c] \in {"reading", "writing"} /\ place'[c] = "ended"
          /\ answer'[c] = "raised"
          /\ UNCHANGED <<Now(c), Aim(c), before, request, attempts, overtaken>>
          /\ \/ stray'[c] = stray[c]
             \/ /\ place[c] = "writing"
                /\ stray'[c] = stray[c] \cup {Document(c)}
      BY <2>8 DEF Lost, Ends, Go, PartTypeOK, Now, Aim
    <3>2. Answered(c)'
      BY <3>1, <2>2 DEF Answered, Alone, Accepted
    <3> QED BY <2>3, <2>8, <3>2 DEF Lost, Ends, Go, PartTypeOK
  <2>9. CASE StrayApplied(c)
    <3>1. PICK document \in stray[c] :
            /\ Applied(c, document)
            /\ stray' = [stray EXCEPT ![c] = @ \ {document}]
      BY <2>9 DEF StrayApplied
    <3>2. document \in Documents
      BY DEF PartTypeOK
    <3>3. /\ Now(c)' = document
          /\ UNCHANGED <<Aim(c), before, request, attempts, place, answer, payload>>
          /\ stray'[c] \subseteq stray[c]
          /\ c \notin overtaken' <=> c \notin overtaken
          /\ Document(c)' = Document(c)
      BY <2>9, <2>1, <3>1 DEF StrayApplied, Applied, PartTypeOK, Now, Aim, Document
    <3>4. Answered(c)'
      BY <3>3, <2>2 DEF Answered, Alone
    <3> QED BY <2>3, <2>9, <3>1, <3>2, <3>4 DEF StrayApplied, PartTypeOK
  <2> QED BY <2>4, <2>5, <2>6, <2>7, <2>8, <2>9
<1> QED BY <1>1, <1>2, PartitioningTypeCorrect, PTL DEF PartSpec

(* A request that nobody overtook took effect entirely or not at all, and  *)
(* its status says so, for any number of callers, views and attempts.      *)
THEOREM ResultsDescribeViews == PartSpec => []ResultDescribesView
<1>1. PartTypeOK /\ PartInv => ResultDescribesView
  <2> SUFFICES ASSUME PartTypeOK, PartInv, NEW c \in Callers,
                      place[c] = "ended", c \notin overtaken
               PROVE  /\ Now(c) = before[c] \/ Fulfils(request[c], before[c], Now(c))
                      /\ answer[c] \in Accepted =>
                           Fulfils(request[c], before[c], Now(c))
                      /\ answer[c] \in Kept \cup {"failed"} /\ attempts[c] = 1 =>
                           Now(c) = before[c]
    BY DEF ResultDescribesView, Now
  <2>1. Alone(c)
    BY DEF PartInv, Answered
  <2>2. Fulfils(request[c], before[c], Aim(c))
    BY GoalFulfils DEF PartTypeOK, Aim
  <2> QED BY <2>1, <2>2 DEF Alone, Kept, Accepted
<1> QED BY <1>1, PartitioningTypeCorrect, PartInvHolds, PTL

(* A creation without overwrite_existing never touches a partitioning that *)
(* was there when it began.                                                *)
THEOREM ExistingPartitioningIsKept == PartSpec => []ExistingIsKept
<1>1. PartInv => ExistingIsKept
  BY DEF PartInv, Answered, Alone, ExistingIsKept, Now
<1> QED BY <1>1, PartInvHolds, PTL

(***************************************************************************)
(* TableStatistics.  As long as nobody else changes a table and the batch  *)
(* has not written it, its metadata is still true (StillTrue); everything a*)
(* status says follows from what was decided by it.                        *)
(***************************************************************************)
LEMMA StatRequestKinds ==
  ASSUME NEW r \in StatRequests
  PROVE  /\ r.kind \in {"configure", "refresh"}
         /\ r.kind = "configure" => r.type \in StatisticsType
BY DEF StatRequests

(* What a change of a table's statistics leaves alone: other tables, and   *)
(* for everybody but its author the record of what they wrote.             *)
LEMMA ChangeFrame ==
  ASSUME StatTypeOK, NEW t \in Known, NEW type \in Kinds, NEW by,
         Changed(t, type, by), NEW d \in Batches
  PROVE  /\ statistics' \in [Known -> Kinds]
         /\ disturbed' \in [Batches -> SUBSET Known]
         /\ wrote' \in [Batches -> SUBSET Known]
         /\ statistics'[t] = type
         /\ \A u \in Known \ {t} : statistics'[u] = statistics[u]
         /\ \A u : u # t => /\ u \in disturbed'[d] <=> u \in disturbed[d]
                            /\ u \in wrote'[d] <=> u \in wrote[d]
         /\ d \notin by => /\ wrote'[d] = wrote[d]
                           /\ t \in disturbed'[d] <=>
                                t \in disturbed[d] \/ type # statistics[t]
         /\ d \in by => /\ disturbed'[d] = disturbed[d]
                        /\ t \in wrote'[d] <=>
                             t \in wrote[d] \/ type # statistics[t]
BY DEF Changed, StatTypeOK

-----------------------------------------------------------------------------
(* The actions of one batch about one table.                               *)
TableStep(b, t) ==
  \/ Decide(b, t) \/ SendAccepted(b, t) \/ AnsweredExists(b, t)
  \/ SendRefused(b, t) \/ CarriedLate(b, t)

(* What a batch knows of a table while it has read its metadata and nobody *)
(* else changed it.                                                        *)
StillTrue(b, t) ==
  /\ t \in Known /\ t \notin disturbed[b] /\ t \notin wrote[b]
  /\ phase[b] = "running" \/ item[b][t] # "waiting"
  => statistics[t] = metadata[b][t]

(* What was decided of a table that a request is sent about.               *)
Sent(b, t) ==
  item[b][t] \in {"sent", "lost"} =>
    /\ t \in Known \ Unsupported /\ t \notin wrote[b]
    /\ statRequest[b].kind = "configure" =>
         /\ metadata[b][t] # statRequest[b].type
         /\ t \in CountOnly => statRequest[b].type = "RECORD_COUNT"

(* A table is written once, and a batch that gave up knows nothing of it.  *)
Wrote(b, t) ==
  t \in wrote[b] =>
    /\ t \in Known \ Unsupported
    /\ t \in CountOnly => statRequest[b].type = "RECORD_COUNT"
    /\ t \notin disturbed[b] => statistics[t] = statRequest[b].type
    /\ \/ item[b][t] \in {"created", "updated"}
       \/ item[b][t] = "waiting" /\ phase[b] = "raised"

Status(b, t) ==
  /\ item[b][t] = "created" => metadata[b][t] = NoStatistics /\ t \in wrote[b]
  /\ item[b][t] = "updated" =>
       /\ t \in Known /\ metadata[b][t] # NoStatistics
       /\ t \notin disturbed[b] => t \in wrote[b]
  /\ item[b][t] = "already_configured" =>
       t \in Known /\ metadata[b][t] = statRequest[b].type
  /\ item[b][t] = "already_exists" => t \in disturbed[b]
  /\ item[b][t] = "lost" => phase[b] = "raised"
  /\ phase[b] = "reading" => item[b][t] = "waiting" /\ wrote[b] = {}

Described(b, t) ==
  StillTrue(b, t) /\ Sent(b, t) /\ Wrote(b, t) /\ Status(b, t)

StatInv == \A b \in Batches, t \in Tables : Described(b, t)

(* What the tenant carries out of a request that was sent.                 *)
LEMMA CarriedChanges ==
  ASSUME StatTypeOK, NEW b \in Batches, NEW t \in Tables, Sent(b, t),
         item[b][t] \in {"sent", "lost"}, Carries(b, t)
  PROVE  /\ t \in Known
         /\ \/ /\ statRequest[b].kind = "configure"
               /\ statRequest[b].type \in StatisticsType
               /\ Creating(b, t) => statistics[t] = NoStatistics
               /\ Changed(t, statRequest[b].type, {b})
            \/ /\ statRequest[b].kind = "refresh"
               /\ UNCHANGED <<statistics, disturbed, wrote>>
<1>1. statRequest[b] \in StatRequests
  BY DEF StatTypeOK
<1> QED BY <1>1, StatRequestKinds DEF Carries, Sent

-----------------------------------------------------------------------------
(* Requests are sent only about tables of the space.                       *)
SentKnown ==
  \A b \in Batches, t \in Tables : item[b][t] \in {"sent", "lost"} => t \in Known

LEMMA TypesHold == StatSpec => [](StatTypeOK /\ SentKnown)
<1>1. StatInit => StatTypeOK /\ SentKnown
  BY ChangesAssumption DEF StatInit, StatTypeOK, ItemPlace, Kinds, SentKnown
<1>2. ASSUME StatTypeOK, SentKnown, [StatNext]_statVars PROVE StatTypeOK'
  <2>0. CASE UNCHANGED statVars
    BY <1>2, <2>0 DEF statVars, StatTypeOK
  <2>1. ASSUME NEW b \in Batches, ReadMetadata(b) PROVE StatTypeOK'
    BY <1>2, <2>1 DEF StatTypeOK, ReadMetadata
  <2>2. ASSUME NEW b \in Batches, BatchRaises(b) PROVE StatTypeOK'
    <3>1. item' \in [Batches -> [Tables -> ItemPlace]]
      BY <1>2, <2>2 DEF StatTypeOK, BatchRaises, ItemPlace
    <3> QED BY <1>2, <2>2, <3>1 DEF StatTypeOK, BatchRaises
  <2>3. ASSUME NEW b \in Batches, BatchReturns(b) PROVE StatTypeOK'
    BY <1>2, <2>3 DEF StatTypeOK, BatchReturns
  <2>4. ASSUME NEW t \in Known, OtherChanges(t) PROVE StatTypeOK'
    <3>1. PICK type \in Kinds : Changed(t, type, {})
      BY <2>4 DEF OtherChanges
    <3>2. /\ statistics' \in [Known -> Kinds]
          /\ disturbed' \in [Batches -> SUBSET Known]
          /\ wrote' \in [Batches -> SUBSET Known]
      BY <1>2, <3>1 DEF Changed, StatTypeOK
    <3> QED BY <1>2, <2>4, <3>2, ChangesAssumption DEF StatTypeOK, OtherChanges
  <2>5. ASSUME NEW b \in Batches, NEW t \in Tables, TableStep(b, t)
        PROVE  StatTypeOK'
    <3>1. /\ Refusal(b, t) # "none" => Refusal(b, t) \in ItemPlace
          /\ AcceptedStatus(b, t) \in ItemPlace
      BY DEF Refusal, AcceptedStatus, ItemPlace, Configured, Refused
    <3>2. \E where \in ItemPlace : Sets(b, t, where)
      BY <2>5, <3>1
         DEF TableStep, Decide, SendAccepted, AnsweredExists, SendRefused,
             CarriedLate, ItemPlace, Configured
    <3>3. item' \in [Batches -> [Tables -> ItemPlace]]
      BY <1>2, <3>2 DEF Sets, StatTypeOK
    <3>4. /\ statistics' \in [Known -> Kinds]
          /\ disturbed' \in [Batches -> SUBSET Known]
          /\ wrote' \in [Batches -> SUBSET Known]
      <4>1. CASE item[b][t] \in {"sent", "lost"} /\ Carries(b, t)
        <5>1. statRequest[b] \in StatRequests
          BY <1>2 DEF StatTypeOK
        <5>2. CASE UNCHANGED <<statistics, disturbed, wrote>>
          BY <1>2, <5>2 DEF StatTypeOK
        <5>4. t \in Known
          BY <1>2, <4>1 DEF SentKnown
        <5>3. CASE /\ statRequest[b].type \in StatisticsType
                   /\ Changed(t, statRequest[b].type, {b})
          BY <1>2, <5>3, <5>4 DEF StatTypeOK, Changed, Kinds
        <5> QED BY <4>1, <5>1, <5>2, <5>3, StatRequestKinds DEF Carries
      <4>2. CASE UNCHANGED <<statistics, disturbed, wrote>>
        BY <1>2, <4>2 DEF StatTypeOK
      <4> QED BY <2>5, <4>1, <4>2
              DEF TableStep, Decide, SendAccepted, AnsweredExists, SendRefused,
                  CarriedLate
    <3> QED BY <1>2, <2>5, <3>3, <3>4
            DEF TableStep, Decide, SendAccepted, AnsweredExists, SendRefused,
                CarriedLate, StatTypeOK
  <2> QED BY <1>2, <2>0, <2>1, <2>2, <2>3, <2>4, <2>5 DEF StatNext, TableStep
<1>3. ASSUME StatTypeOK, SentKnown, [StatNext]_statVars PROVE SentKnown'
  <2> SUFFICES ASSUME NEW d \in Batches, NEW u \in Tables,
                      item'[d][u] \in {"sent", "lost"}
               PROVE  u \in Known
    BY DEF SentKnown
  <2>1. item[d][u] \in {"sent", "lost"} => u \in Known
    BY <1>3 DEF SentKnown
  <2>2. CASE item' = item
    BY <2>1, <2>2
  <2>3. ASSUME NEW b \in Batches, BatchRaises(b) PROVE u \in Known
    BY <1>3, <2>1, <2>3 DEF BatchRaises, StatTypeOK
  <2>4. ASSUME NEW b \in Batches, NEW t \in Tables, TableStep(b, t)
        PROVE  u \in Known
    <3>1. \/ Sets(b, t, Refusal(b, t))
          \/ Refusal(b, t) = "none" /\ Sets(b, t, "sent")
          \/ \E where \in ItemPlace \ {"sent", "lost"} : Sets(b, t, where)
      BY <2>4 DEF TableStep, Decide, SendAccepted, AnsweredExists, SendRefused,
                  CarriedLate, AcceptedStatus, ItemPlace, Configured
    <3>2. Refusal(b, t) \notin {"sent", "lost"} /\ (Refusal(b, t) = "none" => t \in Known)
      BY DEF Refusal
    <3>3. ASSUME NEW where, Sets(b, t, where)
          PROVE  item'[d][u] = IF d = b /\ u = t THEN where ELSE item[d][u]
      BY <1>3, <3>3 DEF Sets, StatTypeOK
    <3> QED BY <2>1, <3>1, <3>2, <3>3
  <2> QED
    BY <1>3, <2>2, <2>3, <2>4
       DEF StatNext, TableStep, statVars, ReadMetadata, BatchReturns, OtherChanges
<1> QED BY <1>1, <1>2, <1>3, PTL DEF StatSpec

(* The variables keep their types.                                         *)
THEOREM StatisticsTypeCorrect == StatSpec => []StatTypeOK
BY TypesHold, PTL


-----------------------------------------------------------------------------
LEMMA StatInvHolds == StatSpec => []StatInv
<1>1. StatInit => StatInv
  BY DEF StatInit, StatInv, Described, StillTrue, Sent, Wrote, Status
<1>2. ASSUME StatTypeOK, StatTypeOK', StatInv, [StatNext]_statVars PROVE StatInv'
  <2> SUFFICES ASSUME NEW d \in Batches, NEW u \in Tables PROVE Described(d, u)'
    BY DEF StatInv
  <2> USE <1>2
  <2>a. Described(d, u)
    BY DEF StatInv
  <2>0. CASE UNCHANGED statVars
    BY <2>a, <2>0 DEF statVars, Described, StillTrue, Sent, Wrote, Status
  <2>b. ASSUME NEW b \in Batches, b # d,
               UNCHANGED <<statistics, disturbed, wrote, statRequest, phase[d],
                           metadata[d], item[d]>>
        PROVE  Described(d, u)'
    BY <2>a, <2>b DEF Described, StillTrue, Sent, Wrote, Status
  <2>1. ASSUME NEW b \in Batches, ReadMetadata(b) PROVE Described(d, u)'
    <3>1. CASE b # d
      BY <2>a, <2>1, <3>1
         DEF ReadMetadata, StatTypeOK, Described, StillTrue, Sent, Wrote, Status
    <3>2. CASE b = d
      BY <2>a, <2>1, <3>2
         DEF ReadMetadata, StatTypeOK, Described, StillTrue, Sent, Wrote, Status
    <3> QED BY <3>1, <3>2
  <2>2. ASSUME NEW b \in Batches, BatchRaises(b) PROVE Described(d, u)'
    <3>1. CASE b # d
      BY <2>b, <2>2, <3>1 DEF BatchRaises, StatTypeOK
    <3>2. CASE b = d
      <4>1. /\ phase[d] \in {"reading", "running"} /\ phase'[d] = "raised"
            /\ item'[d][u] = IF item[d][u] = "sent" THEN "lost" ELSE item[d][u]
            /\ UNCHANGED <<statistics, statRequest, metadata, disturbed, wrote>>
        BY <2>2, <3>2 DEF BatchRaises, StatTypeOK
      <4> QED BY <2>a, <4>1 DEF Described, StillTrue, Sent, Wrote, Status
    <3> QED BY <3>1, <3>2
  <2>3. ASSUME NEW b \in Batches, BatchReturns(b) PROVE Described(d, u)'
    <3>1. CASE b # d
      BY <2>b, <2>3, <3>1 DEF BatchReturns, StatTypeOK
    <3>2. CASE b = d
      BY <2>a, <2>3, <3>2
         DEF BatchReturns, StatTypeOK, Described, StillTrue, Sent, Wrote, Status
    <3> QED BY <3>1, <3>2
  <2>4. ASSUME NEW t \in Known, OtherChanges(t) PROVE Described(d, u)'
    <3>1. PICK type \in Kinds : Changed(t, type, {})
      BY <2>4 DEF OtherChanges
    <3>2. UNCHANGED <<statRequest, phase, metadata, item>>
      BY <2>4 DEF OtherChanges
    <3>3. /\ wrote'[d] = wrote[d]
          /\ u = t => u \in disturbed'[d] \/ (/\ statistics'[u] = statistics[u]
                                              /\ u \notin disturbed[d])
          /\ u # t /\ u \in Known => statistics'[u] = statistics[u]
          /\ u \in disturbed[d] => u \in disturbed'[d]
          /\ u # t => (u \in disturbed'[d] <=> u \in disturbed[d])
      BY <3>1, ChangeFrame
    <3>4. u \in wrote[d] => u \in Known
      BY DEF StatTypeOK
    <3> QED BY <2>a, <3>2, <3>3, <3>4 DEF Described, StillTrue, Sent, Wrote, Status
  <2>5. ASSUME NEW b \in Batches, NEW t \in Tables, TableStep(b, t),
               ~(b = d /\ t = u)
        PROVE  Described(d, u)'
    <3>1. /\ UNCHANGED <<statRequest, phase, metadata>>
          /\ item'[d][u] = item[d][u]
      BY <2>5 DEF TableStep, Decide, SendAccepted, AnsweredExists, SendRefused,
                  CarriedLate, Sets, StatTypeOK
    <3>2. \/ UNCHANGED <<statistics, disturbed, wrote>>
          \/ item[b][t] \in {"sent", "lost"} /\ Carries(b, t)
      BY <2>5 DEF TableStep, Decide, SendAccepted, AnsweredExists, SendRefused,
                  CarriedLate
    <3>3. CASE UNCHANGED <<statistics, disturbed, wrote>>
      BY <2>a, <3>1, <3>3 DEF Described, StillTrue, Sent, Wrote, Status
    <3>4. CASE /\ t \in Known /\ statRequest[b].type \in StatisticsType
               /\ Changed(t, statRequest[b].type, {b})
      <4>1. /\ u \in Known /\ u # t => statistics'[u] = statistics[u]
            /\ u # t => /\ u \in disturbed'[d] <=> u \in disturbed[d]
                        /\ u \in wrote'[d] <=> u \in wrote[d]
            /\ u = t => /\ u \in wrote'[d] <=> u \in wrote[d]
                        /\ u \in disturbed[d] => u \in disturbed'[d]
                        /\ u \notin disturbed'[d] => statistics'[u] = statistics[u]
        BY <2>5, <3>4, ChangeFrame DEF Kinds
      <4>2. phase[d] = "reading" => wrote'[d] = {}
        <5>1. CASE b = d
          <6>1. Sent(b, t) /\ Status(b, t)
            BY DEF StatInv, Described
          <6>2. phase[b] # "reading"
            BY <2>5, <5>1, <6>1, <3>4
               DEF TableStep, Decide, SendAccepted, AnsweredExists, SendRefused,
                   CarriedLate, Waits, Status
          <6> QED BY <5>1, <6>2
        <5>2. CASE b # d
          BY <2>a, <3>4, <5>2, ChangeFrame DEF Kinds, Described, Status
        <5> QED BY <5>1, <5>2
      <4>3. u \in wrote[d] => u \in Known
        BY DEF StatTypeOK
      <4> QED BY <2>a, <3>1, <4>1, <4>2, <4>3
              DEF Described, StillTrue, Sent, Wrote, Status
    <3> QED
      <4>1. Sent(b, t)
        BY DEF StatInv, Described
      <4> QED BY <3>2, <3>3, <3>4, <4>1, CarriedChanges
  <2>6. ASSUME Decide(d, u) PROVE Described(d, u)'
    <3>1. /\ UNCHANGED <<statistics, statRequest, phase, metadata, disturbed, wrote>>
          /\ item[d][u] = "waiting" /\ phase[d] = "running"
          /\ item'[d][u] = IF Refusal(d, u) = "none" THEN "sent"
                                                     ELSE Refusal(d, u)
      BY <2>6 DEF Decide, Waits, Sets, StatTypeOK
    <3>2. u \notin wrote[d]
      BY <2>a, <3>1 DEF Described, Wrote
    <3>3. item'[d][u] = "sent" =>
            /\ u \in Known \ Unsupported
            /\ statRequest[d].kind = "configure" =>
                 /\ metadata[d][u] # statRequest[d].type
                 /\ u \in CountOnly => statRequest[d].type = "RECORD_COUNT"
      <4>1. statRequest[d].kind \in {"configure", "refresh"}
        BY StatRequestKinds DEF StatTypeOK
      <4> QED BY <3>1, <4>1 DEF Refusal
    <3>4. item'[d][u] = "already_configured" =>
            u \in Known /\ metadata[d][u] = statRequest[d].type
      BY <3>1 DEF Refusal
    <3>5. item'[d][u] \in {"sent", "table_not_found", "unsupported",
                           "no_statistics", "unsupported_type",
                           "already_configured"}
      BY <3>1 DEF Refusal
    <3> QED BY <2>a, <3>1, <3>2, <3>3, <3>4, <3>5
            DEF Described, StillTrue, Sent, Wrote, Status
  <2>7. ASSUME SendAccepted(d, u) PROVE Described(d, u)'
    <3>1. /\ UNCHANGED <<statRequest, phase, metadata>>
          /\ item[d][u] = "sent" /\ phase[d] = "running"
          /\ item'[d][u] = AcceptedStatus(d, u)
          /\ Carries(d, u)
      BY <2>7 DEF SendAccepted, Sets, StatTypeOK
    <3>2. Sent(d, u) /\ StillTrue(d, u) /\ u \notin wrote[d]
      BY <2>a, <3>1 DEF Described, Sent
    <3>3. CASE /\ statRequest[d].kind = "refresh"
               /\ UNCHANGED <<statistics, disturbed, wrote>>
      <4>1. item'[d][u] = "refreshed"
        BY <3>1, <3>3 DEF AcceptedStatus
      <4> QED BY <3>1, <3>2, <3>3, <4>1, <2>a
              DEF Described, StillTrue, Sent, Wrote, Status
    <3>4. CASE /\ statRequest[d].kind = "configure"
               /\ statRequest[d].type \in StatisticsType
               /\ Creating(d, u) => statistics[u] = NoStatistics
               /\ Changed(u, statRequest[d].type, {d})
      <4>1. /\ u \in Known /\ statistics'[u] = statRequest[d].type
            /\ disturbed'[d] = disturbed[d]
            /\ u \in wrote'[d] <=> statRequest[d].type # statistics[u]
        BY <3>1, <3>2, <3>4, CarriedChanges, ChangeFrame DEF Kinds, Sent
      <4>2. CASE Creating(d, u)
        <5>1. item'[d][u] = "created" /\ metadata[d][u] = NoStatistics
          BY <3>1, <3>4, <4>2 DEF AcceptedStatus, Creating
        <5>2. u \in wrote'[d]
          BY <3>4, <4>1, <4>2 DEF StatisticsType, NoStatistics
        <5> QED BY <3>1, <3>2, <4>1, <5>1, <5>2, <3>4
                DEF Described, StillTrue, Sent, Wrote, Status
      <4>3. CASE ~Creating(d, u)
        <5>1. item'[d][u] = "updated" /\ metadata[d][u] # NoStatistics
          BY <3>1, <3>4, <4>3 DEF AcceptedStatus, Creating
        <5>2. u \notin disturbed[d] => u \in wrote'[d]
          BY <3>1, <3>2, <3>4, <4>1 DEF StillTrue, Sent
        <5> QED BY <3>1, <3>2, <4>1, <5>1, <5>2, <3>4
                DEF Described, StillTrue, Sent, Wrote, Status
      <4> QED BY <4>2, <4>3
    <3> QED BY <3>1, <3>2, <3>3, <3>4, CarriedChanges
  <2>8. ASSUME AnsweredExists(d, u) PROVE Described(d, u)'
    <3>1. /\ UNCHANGED <<statistics, statRequest, phase, metadata, disturbed, wrote>>
          /\ item[d][u] = "sent" /\ phase[d] = "running"
          /\ item'[d][u] = "already_exists"
          /\ metadata[d][u] = NoStatistics /\ statistics[u] # NoStatistics
      BY <2>8 DEF AnsweredExists, Sets, StatTypeOK, Creating
    <3>2. u \in disturbed[d] /\ u \notin wrote[d]
      BY <2>a, <3>1 DEF Described, StillTrue, Sent
    <3> QED BY <2>a, <3>1, <3>2 DEF Described, StillTrue, Sent, Wrote, Status
  <2>9. ASSUME SendRefused(d, u) PROVE Described(d, u)'
    <3>1. /\ UNCHANGED <<statistics, statRequest, phase, metadata, disturbed, wrote>>
          /\ item[d][u] = "sent" /\ item'[d][u] = "failed"
      BY <2>9 DEF SendRefused, Sets, StatTypeOK
    <3> QED BY <2>a, <3>1 DEF Described, StillTrue, Sent, Wrote, Status
  <2>10. ASSUME CarriedLate(d, u) PROVE Described(d, u)'
    <3>1. /\ UNCHANGED <<statRequest, phase, metadata>>
          /\ item[d][u] = "lost" /\ item'[d][u] = "waiting"
          /\ Carries(d, u)
      BY <2>10 DEF CarriedLate, Sets, StatTypeOK
    <3>2. Sent(d, u) /\ u \notin wrote[d]
      BY <2>a, <3>1 DEF Described, Sent
    <3>3. phase[d] = "raised"
      BY <2>a, <3>1 DEF Described, Status
    <3>4. CASE UNCHANGED <<statistics, disturbed, wrote>>
      BY <3>1, <3>2, <3>3, <3>4 DEF Described, StillTrue, Sent, Wrote, Status
    <3>5. CASE /\ statRequest[d].kind = "configure"
               /\ statRequest[d].type \in StatisticsType
               /\ Changed(u, statRequest[d].type, {d})
      <4>1. /\ u \in Known /\ statistics'[u] = statRequest[d].type
            /\ disturbed'[d] = disturbed[d]
        BY <3>1, <3>2, <3>5, CarriedChanges, ChangeFrame DEF Kinds
      <4> QED BY <3>1, <3>2, <3>3, <3>5, <4>1
              DEF Described, StillTrue, Sent, Wrote, Status
    <3> QED BY <3>1, <3>2, <3>4, <3>5, CarriedChanges
  <2> QED
    BY <2>0, <2>1, <2>2, <2>3, <2>4, <2>5, <2>6, <2>7, <2>8, <2>9, <2>10
       DEF StatNext, TableStep
<1> QED BY <1>1, <1>2, StatisticsTypeCorrect, PTL DEF StatSpec

(* A batch that saw a table without statistics changes their type only     *)
(* from none, whatever other batches and users do.                         *)
THEOREM UnseenAreKept == StatSpec => UnseenStatisticsAreKept
<1>1. ASSUME StatTypeOK, StatInv, [StatNext]_statVars, NEW b \in Batches,
             NEW t \in Known, t \in wrote'[b] \ wrote[b],
             metadata[b][t] = NoStatistics
      PROVE  statistics[t] = NoStatistics
  <2>1. wrote' # wrote
    BY <1>1
  <2>2. ASSUME NEW d \in Batches, NEW u \in Tables,
               item[d][u] \in {"sent", "lost"}, Carries(d, u),
               metadata' = metadata
        PROVE  statistics[t] = NoStatistics
    <3>1. Sent(d, u)
      BY <1>1 DEF StatInv, Described
    <3>2. /\ u \in Known /\ statRequest[d].type \in Kinds
          /\ Creating(d, u) => statistics[u] = NoStatistics
          /\ Changed(u, statRequest[d].type, {d})
      BY <1>1, <2>1, <2>2, <3>1, CarriedChanges DEF Kinds
    <3>3. u = t /\ b = d
      BY <1>1, <3>2, ChangeFrame
    <3> QED BY <1>1, <3>2, <3>3 DEF Creating
  <2>3. ASSUME NEW x \in Known, OtherChanges(x) PROVE FALSE
    <3>1. PICK type \in Kinds : Changed(x, type, {})
      BY <2>3 DEF OtherChanges
    <3> QED BY <1>1, <3>1, ChangeFrame
  <2> QED
    BY <1>1, <2>1, <2>2, <2>3
       DEF StatNext, statVars, ReadMetadata, BatchRaises, BatchReturns, Decide,
           SendAccepted, AnsweredExists, SendRefused, CarriedLate
<1>2. StatTypeOK /\ StatInv /\ [StatNext]_statVars =>
        [\A b \in Batches, t \in Known :
           t \in wrote'[b] \ wrote[b] /\ metadata[b][t] = NoStatistics
             => statistics[t] = NoStatistics]_statVars
  BY <1>1
<1> QED
  BY <1>2, StatisticsTypeCorrect, StatInvHolds, PTL DEF StatSpec, UnseenStatisticsAreKept

(* A status tells what became of its table, unless somebody else changed   *)
(* the table meanwhile.                                                    *)
THEOREM StatusesDescribeTables == StatSpec => []StatusDescribesTable
<1>1. StatTypeOK /\ StatInv => StatusDescribesTable
  <2> SUFFICES ASSUME StatTypeOK, StatInv, NEW b \in Batches, NEW t \in Tables
               PROVE
      /\ item[b][t] \in Configured /\ t \notin disturbed[b] =>
           statistics[t] = statRequest[b].type
      /\ item[b][t] \in Refused \cup {"failed", "refreshed",
                             "already_configured", "already_exists"} =>
           t \notin wrote[b]
      /\ item[b][t] = "created" =>
           metadata[b][t] = NoStatistics /\ t \in wrote[b]
      /\ item[b][t] = "updated" => metadata[b][t] # NoStatistics
      /\ item[b][t] = "updated" /\ t \notin disturbed[b] => t \in wrote[b]
      /\ t \in Known /\ t \in wrote[b] =>
           /\ t \notin Unsupported
           /\ t \in CountOnly => statRequest[b].type = "RECORD_COUNT"
    BY DEF StatusDescribesTable
  <2>1. StillTrue(b, t) /\ Wrote(b, t) /\ Status(b, t)
    BY DEF StatInv, Described
  <2>2. item[b][t] \in Refused \cup {"failed", "refreshed", "already_configured",
                                    "already_exists"} => t \notin wrote[b]
    BY <2>1 DEF Wrote, Refused
  <2>3. item[b][t] \in Configured /\ t \notin disturbed[b] =>
          statistics[t] = statRequest[b].type
    BY <2>1, <2>2 DEF Configured, StillTrue, Wrote, Status
  <2> QED BY <2>1, <2>2, <2>3 DEF Wrote, Status
<1> QED BY <1>1, StatisticsTypeCorrect, StatInvHolds, PTL
=============================================================================
