----------------------------- MODULE Partitioning -----------------------------
(***************************************************************************)
(* The partitioning of persisted views (datasphere_core/commands/views.py):*)
(* yearly ranges are created, locked, unlocked and deleted.  Every request *)
(* but the deletion reads the partitioning first and writes a whole one    *)
(* back; the tenant keeps no version, so that writers overtake each other. *)
(*                                                                         *)
(* A caller is one item of a batch, or a command of its own; several of    *)
(* them may be about one view.  A request whose answer is lost raises, and *)
(* the caller may make it again.                                           *)
(***************************************************************************)
EXTENDS Integers

CONSTANTS
  Callers,        (* items and commands that change a partitioning          *)
  Views,          (* persisted views                                        *)
  Years,          (* years that bound ranges                                *)
  StringColumns,  (* partitioning columns of type cds.String                *)
  OtherColumns,   (* partitioning columns of another type                   *)
  NoColumn,       (* an attribute that is no partitioning column            *)
  Existing,       (* partitionings that views have to begin with            *)
  MaxAttempts     (* bound: attempts of one caller                          *)

ASSUME YearsAssumption ==
  /\ Years \subseteq Nat \ {0}
  /\ \A y, z \in Years : y..z \subseteq Years
ASSUME ColumnsAssumption ==
  NoColumn \notin StringColumns \cup OtherColumns
ASSUME AttemptsAssumption == MaxAttempts \in Nat

NotAYear == 0  (* a bound that int() does not accept *)

Columns == StringColumns \cup OtherColumns \cup {NoColumn}
Ranges == [low : Years \cup {NotAYear}, high : Years]

(* A view without partitions is read as one with no ranges.                *)
Documents ==
  [column : Columns, ranges : SUBSET Ranges, locked : SUBSET Ranges]
NoPartitioning == [column |-> NoColumn, ranges |-> {}, locked |-> {}]

ASSUME ExistingAssumption == Existing \subseteq Documents

(* Requests refuse an inverted or empty interval.                          *)
CreateRequests ==
  {r \in [kind : {"create"}, view : Views, column : Columns,
          start : Years, end : Years, overwrite : BOOLEAN] : r.start < r.end}
DeleteRequests == [kind : {"delete"}, view : Views]
LockRequests == [kind : {"lock"}, view : Views, until : Years]
UnlockRequests == [kind : {"unlock"}, view : Views]
Requests ==
  CreateRequests \cup DeleteRequests \cup LockRequests \cup UnlockRequests

VARIABLES
  partitioning,  (* the tenant: partitioning of each view                   *)
  stray,         (* documents whose writer has given up, still on their way *)
  request,       (* what each caller asks for                               *)
  place,         (* the request to the tenant each caller is suspended at   *)
  payload,       (* the document it is about to write                       *)
  answer,        (* its status, or "raised"                                 *)
  attempts,      (* attempts it has made                                    *)
  before,        (* the partitioning when it first began (history)          *)
  overtaken      (* callers whose view another one has written since        *)
                 (* (history)                                               *)

partVars ==
  <<partitioning, stray, request, place, payload, answer, attempts, before,
    overtaken>>

Accepted == {"created", "deleted", "locked", "unlocked"}
Kept == {"invalid_column", "already_exists", "no_partitions"}
Statuses == Accepted \cup Kept \cup {"failed", "raised"}

Success(r) ==
  IF r.kind = "create" THEN "created"
  ELSE IF r.kind = "delete" THEN "deleted"
  ELSE IF r.kind = "lock" THEN "locked" ELSE "unlocked"

-----------------------------------------------------------------------------
PartInit ==
  /\ partitioning \in [Views -> Existing]
  /\ stray = [c \in Callers |-> {}]
  /\ request \in [Callers -> Requests]
  /\ place = [c \in Callers |-> "new"]
  /\ payload = [c \in Callers |-> NoPartitioning]
  /\ answer = [c \in Callers |-> "none"]
  /\ attempts = [c \in Callers |-> 0]
  /\ before = [c \in Callers |-> NoPartitioning]
  /\ overtaken = {}

(* One range per year; the end year is the upper bound of the last.        *)
YearlyPartitioning(r) ==
  [column |-> r.column,
   ranges |-> {[low |-> y, high |-> y + 1] : y \in r.start..(r.end - 1)},
   locked |-> {}]

(* Every lock flag of the document is written anew.                        *)
(* Mutant: the range that the year closes is left out.                     *)
LockedBelow(r, p) == [p EXCEPT !.locked = {s \in p.ranges : s.high < r.until}]
Locked(r, p) == [p EXCEPT !.locked = {s \in p.ranges : s.low < r.until}]
Unlocked(p) == [p EXCEPT !.locked = {}]

-----------------------------------------------------------------------------
Go(c, where) == place' = [place EXCEPT ![c] = where]

Ends(c, status) ==
  /\ Go(c, "ended")
  /\ answer' = [answer EXCEPT ![c] = status]

(* A caller begins, or asks again after it raised.  Only the deletion      *)
(* reads nothing.                                                          *)
Begin(c) ==
  /\ place[c] = "new" \/ (place[c] = "ended" /\ answer[c] = "raised")
  /\ attempts[c] < MaxAttempts
  /\ attempts' = [attempts EXCEPT ![c] = @ + 1]
  /\ Go(c, IF request[c].kind = "delete" THEN "writing" ELSE "reading")
  /\ before' = IF place[c] = "new"
                 THEN [before EXCEPT ![c] = partitioning[request[c].view]]
                 ELSE before
  /\ UNCHANGED <<partitioning, stray, request, payload, answer, overtaken>>

Writes(c, document) ==
  /\ payload' = [payload EXCEPT ![c] = document]
  /\ Go(c, "writing")
  /\ UNCHANGED answer

ReturnsAtOnce(c, status) == Ends(c, status) /\ UNCHANGED payload

(* Mutant: an existing partitioning is not looked at.                      *)
CreateOver(c, p) ==
  LET r == request[c] IN
  \/ /\ r.column \notin StringColumns
     /\ ReturnsAtOnce(c, "invalid_column")
  \/ /\ r.column \in StringColumns
     /\ Writes(c, YearlyPartitioning(r))

CreateReads(c, p) ==
  LET r == request[c] IN
  \/ /\ r.column \notin StringColumns
     /\ ReturnsAtOnce(c, "invalid_column")
  \/ /\ r.column \in StringColumns
     /\ p.ranges # {} /\ ~r.overwrite
     /\ ReturnsAtOnce(c, "already_exists")
  \/ /\ r.column \in StringColumns
     /\ p.ranges = {} \/ r.overwrite
     /\ Writes(c, YearlyPartitioning(r))

LockReads(c, p) ==
  \/ p.ranges = {} /\ ReturnsAtOnce(c, "no_partitions")
  \/ /\ \E s \in p.ranges : s.low = NotAYear
     /\ ReturnsAtOnce(c, "raised")
  \/ /\ p.ranges # {}
     /\ \A s \in p.ranges : s.low # NotAYear
     /\ Writes(c, Locked(request[c], p))

UnlockReads(c, p) ==
  \/ p.ranges = {} /\ ReturnsAtOnce(c, "no_partitions")
  \/ p.ranges # {} /\ Writes(c, Unlocked(p))

Read(c) ==
  /\ place[c] = "reading"
  /\ LET p == partitioning[request[c].view] IN
     \/ request[c].kind = "create" /\ CreateReads(c, p)
     \/ request[c].kind = "lock" /\ LockReads(c, p)
     \/ request[c].kind = "unlock" /\ UnlockReads(c, p)
  /\ UNCHANGED <<partitioning, stray, request, attempts, before, overtaken>>

(* What a caller writes: a deletion leaves nothing.                        *)
Document(c) == IF request[c].kind = "delete" THEN NoPartitioning ELSE payload[c]

(* The tenant carries a write out, which overtakes all others of the view. *)
Applied(c, document) ==
  /\ partitioning' = [partitioning EXCEPT ![request[c].view] = document]
  /\ overtaken' = overtaken \cup
       {d \in Callers \ {c} :
          place[d] # "new" /\ request[d].view = request[c].view}

WriteAccepted(c) ==
  /\ place[c] = "writing"
  /\ Applied(c, Document(c))
  /\ Ends(c, Success(request[c]))
  /\ UNCHANGED <<stray, request, payload, attempts, before>>

(* A status other than 201, or 200 for a deletion: nothing was changed.    *)
WriteRefused(c) ==
  /\ place[c] = "writing"
  /\ Ends(c, "failed")
  /\ UNCHANGED <<partitioning, stray, request, payload, attempts, before,
                 overtaken>>

(* A request or its answer is lost, or the caller is cancelled: a write    *)
(* may be carried out all the same, at once or later.                      *)
Lost(c) ==
  /\ place[c] \in {"reading", "writing"}
  /\ Ends(c, "raised")
  /\ \/ UNCHANGED stray
     \/ /\ place[c] = "writing"
        /\ stray' = [stray EXCEPT ![c] = @ \cup {Document(c)}]
  /\ UNCHANGED <<partitioning, request, payload, attempts, before, overtaken>>

StrayApplied(c) ==
  /\ \E document \in stray[c] :
       /\ Applied(c, document)
       /\ stray' = [stray EXCEPT ![c] = @ \ {document}]
  /\ UNCHANGED <<request, place, payload, answer, attempts, before>>

PartNext ==
  \E c \in Callers :
    Begin(c) \/ Read(c) \/ WriteAccepted(c) \/ WriteRefused(c) \/ Lost(c)
      \/ StrayApplied(c)

PartSpec == PartInit /\ [][PartNext]_partVars

-----------------------------------------------------------------------------
PartTypeOK ==
  /\ partitioning \in [Views -> Documents]
  /\ stray \in [Callers -> SUBSET Documents]
  /\ request \in [Callers -> Requests]
  /\ place \in [Callers -> {"new", "reading", "writing", "ended"}]
  /\ payload \in [Callers -> Documents]
  /\ answer \in [Callers -> Statuses \cup {"none"}]
  /\ attempts \in [Callers -> 0..MaxAttempts]
  /\ before \in [Callers -> Documents]
  /\ overtaken \in SUBSET Callers

(* What a request is for, as the README says it: the partitions created    *)
(* cover the years from the lower bound to below the upper one, one year   *)
(* each, unlocked; every partition of a yearly partitioning is locked up   *)
(* to and including the one that ends with the year, and no other.         *)
Covers(p, from, to) ==
  /\ \A y \in from..(to - 1) :
       \E s \in p.ranges : s.low <= y /\ y < s.high
  /\ \A s \in p.ranges :
       from <= s.low /\ s.high <= to /\ s.high = s.low + 1

Yearly(p) == \A s \in p.ranges : s.low # NotAYear /\ s.high = s.low + 1

Fulfils(r, old, new) ==
  \/ /\ r.kind = "create"
     /\ new.column = r.column /\ new.locked = {}
     /\ Covers(new, r.start, r.end)
  \/ r.kind = "delete" /\ new.ranges = {}
  \/ /\ r.kind = "lock"
     /\ new.column = old.column /\ new.ranges = old.ranges
     /\ Yearly(old) =>
          new.locked = {s \in old.ranges : s.high <= r.until}
  \/ /\ r.kind = "unlock"
     /\ new.column = old.column /\ new.ranges = old.ranges
     /\ new.locked = {}

(* A request that nobody overtook took effect entirely or not at all,      *)
(* however often its answer was lost and it was made again; a status of    *)
(* success says that it did, and a request that was made once and was      *)
(* refused or not needed changed nothing.                                  *)
ResultDescribesView ==
  \A c \in Callers :
    place[c] = "ended" /\ c \notin overtaken =>
      LET now == partitioning[request[c].view] IN
      /\ now = before[c] \/ Fulfils(request[c], before[c], now)
      /\ answer[c] \in Accepted => Fulfils(request[c], before[c], now)
      /\ answer[c] \in Kept \cup {"failed"} /\ attempts[c] = 1 =>
           now = before[c]

(* A partitioning that is there when a creation without                    *)
(* overwrite_existing begins, and that nobody else touches, survives every *)
(* attempt, whatever is lost: such a creation never comes to write.        *)
ExistingIsKept ==
  \A c \in Callers :
    /\ request[c].kind = "create" /\ place[c] # "new"
    /\ before[c].ranges # {} /\ c \notin overtaken
    => (request[c].overwrite \/
          (place[c] # "writing" /\ partitioning[request[c].view] = before[c]))
=============================================================================
