---------------------------- MODULE TableStatistics ----------------------------
(***************************************************************************)
(* Statistics of remote tables                                             *)
(* (datasphere_core/commands/remote_tables.py): a batch reads the metadata *)
(* of all tables of a space once, and decides from it, table by table and  *)
(* much later, whether statistics are created, replaced, refreshed or left *)
(* alone.  A single command is a batch of one table.                       *)
(*                                                                         *)
(* Which tables are processed at the same time is a matter of run_batch;   *)
(* here any number of them may be.                                         *)
(***************************************************************************)
EXTENDS Integers, FiniteSets

CONSTANTS
  Batches,      (* batches and single commands                              *)
  Tables,       (* names of tables that requests may contain                *)
  Known,        (* those that are remote tables of the space                *)
  Unsupported,  (* those without support for statistics                     *)
  CountOnly,    (* those limited to the record count                        *)
  Selections,   (* sets of tables that batches are asked for                *)
  MaxChanges    (* bound: changes by other users                            *)

ASSUME TablesAssumption ==
  /\ Known \subseteq Tables /\ Selections \subseteq SUBSET Tables
  /\ Unsupported \subseteq Known /\ CountOnly \subseteq Known
ASSUME ChangesAssumption == MaxChanges \in Nat

StatisticsType == {"RECORD_COUNT", "SIMPLE", "HISTOGRAM"}
NoStatistics == "none"
Kinds == StatisticsType \cup {NoStatistics}

StatRequests ==
  [kind : {"configure"}, type : StatisticsType, tables : Selections]
    \cup [kind : {"refresh"}, tables : Selections]

VARIABLES
  statistics,   (* the tenant: type of the statistics of each table         *)
  statRequest,  (* what each batch is asked for                             *)
  phase,        (* how far it is                                            *)
  metadata,     (* statisticsType of each table, as it was read             *)
  item,         (* place or status of each table                            *)
  changes,      (* changes by other users                                   *)
  disturbed,    (* tables each batch shares: changed by somebody else since *)
                (* it read the metadata (history)                           *)
  wrote         (* tables whose statistics each batch changed (history)     *)

statVars ==
  <<statistics, statRequest, phase, metadata, item, changes, disturbed,
    wrote>>

Configured == {"created", "updated", "already_configured", "already_exists"}
Refused == {"unsupported", "unsupported_type", "no_statistics",
            "table_not_found"}
ItemPlace ==
  {"waiting", "sent", "lost", "failed", "refreshed"} \cup Configured
    \cup Refused

-----------------------------------------------------------------------------
StatInit ==
  /\ statistics \in [Known -> Kinds]
  /\ \A t \in Unsupported : statistics[t] = NoStatistics
  /\ \A t \in CountOnly : statistics[t] \in {NoStatistics, "RECORD_COUNT"}
  /\ statRequest \in [Batches -> StatRequests]
  /\ phase = [b \in Batches |-> "reading"]
  /\ metadata = [b \in Batches |-> [t \in Known |-> NoStatistics]]
  /\ item = [b \in Batches |-> [t \in Tables |-> "waiting"]]
  /\ changes = 0
  /\ disturbed = [b \in Batches |-> {}]
  /\ wrote = [b \in Batches |-> {}]

(* The statistics of a table change, at the hands of one batch or of none. *)
Changed(t, type, by) ==
  /\ statistics' = [statistics EXCEPT ![t] = type]
  /\ disturbed' = [b \in Batches |->
       IF b \in by \/ type = statistics[t] THEN disturbed[b]
                                           ELSE disturbed[b] \cup {t}]
  /\ wrote' = [b \in Batches |->
       IF b \in by /\ type # statistics[t] THEN wrote[b] \cup {t}
                                           ELSE wrote[b]]

(* Other users create, replace and delete statistics.                      *)
OtherChanges(t) ==
  /\ changes < MaxChanges /\ t \notin Unsupported
  /\ \E type \in Kinds \ {statistics[t]} :
       /\ t \in CountOnly => type \in {NoStatistics, "RECORD_COUNT"}
       /\ Changed(t, type, {})
  /\ changes' = changes + 1
  /\ UNCHANGED <<statRequest, phase, metadata, item>>

(* _get_all_tables; no explicit tables stand for all that were found.      *)
ReadMetadata(b) ==
  /\ phase[b] = "reading"
  /\ phase' = [phase EXCEPT ![b] = "running"]
  /\ metadata' = [metadata EXCEPT ![b] = statistics]
  /\ disturbed' = [disturbed EXCEPT ![b] = {}]
  /\ UNCHANGED <<statistics, statRequest, item, changes, wrote>>

-----------------------------------------------------------------------------
Sets(b, t, where) == item' = [item EXCEPT ![b][t] = where]

Waits(b, t) ==
  phase[b] = "running" /\ t \in statRequest[b].tables /\ item[b][t] = "waiting"

Creating(b, t) == metadata[b][t] = NoStatistics

(* Mutant: a table that has statistics is never refused.                   *)
RefusalUnlessKnown(b, t) ==
  IF t \notin Known THEN "table_not_found"
  ELSE IF t \in Unsupported THEN "unsupported"
  ELSE IF statRequest[b].kind = "refresh" /\ Creating(b, t)
    THEN "no_statistics"
  ELSE "none"

(* What the metadata alone decides, or "none".                             *)
Refusal(b, t) ==
  IF t \notin Known THEN "table_not_found"
  ELSE IF t \in Unsupported THEN "unsupported"
  ELSE IF statRequest[b].kind = "refresh"
    THEN IF Creating(b, t) THEN "no_statistics" ELSE "none"
  ELSE IF t \in CountOnly /\ statRequest[b].type # "RECORD_COUNT"
    THEN "unsupported_type"
  ELSE IF metadata[b][t] = statRequest[b].type THEN "already_configured"
  ELSE "none"

Decide(b, t) ==
  /\ Waits(b, t)
  /\ Sets(b, t, IF Refusal(b, t) = "none" THEN "sent" ELSE Refusal(b, t))
  /\ UNCHANGED <<statistics, statRequest, phase, metadata, changes, disturbed,
                 wrote>>

-----------------------------------------------------------------------------
(* The tenant carries out what was sent: a creation only where there are   *)
(* no statistics, a replacement where there are some, and perhaps also     *)
(* where there are none any more.                                          *)
Carries(b, t) ==
  LET r == statRequest[b] IN
  \/ /\ r.kind = "configure"
     /\ Creating(b, t) => statistics[t] = NoStatistics
     /\ Changed(t, r.type, {b})
  \/ r.kind = "refresh" /\ UNCHANGED <<statistics, disturbed, wrote>>

AcceptedStatus(b, t) ==
  IF statRequest[b].kind = "refresh" THEN "refreshed"
  ELSE IF Creating(b, t) THEN "created" ELSE "updated"

SendAccepted(b, t) ==
  /\ phase[b] = "running" /\ item[b][t] = "sent"
  /\ Carries(b, t)
  /\ Sets(b, t, AcceptedStatus(b, t))
  /\ UNCHANGED <<statRequest, phase, metadata, changes>>

(* Mutant: statistics that are in the way are replaced.                    *)
AnsweredExistsReplacing(b, t) ==
  /\ phase[b] = "running" /\ item[b][t] = "sent"
  /\ statRequest[b].kind = "configure" /\ Creating(b, t)
  /\ statistics[t] # NoStatistics
  /\ Changed(t, statRequest[b].type, {b})
  /\ Sets(b, t, "updated")
  /\ UNCHANGED <<statRequest, phase, metadata, changes>>

AnsweredExists(b, t) ==
  /\ phase[b] = "running" /\ item[b][t] = "sent"
  /\ statRequest[b].kind = "configure" /\ Creating(b, t)
  /\ statistics[t] # NoStatistics
  /\ Sets(b, t, "already_exists")
  /\ UNCHANGED <<statistics, statRequest, phase, metadata, changes, disturbed,
                 wrote>>

SendRefused(b, t) ==
  /\ phase[b] = "running" /\ item[b][t] = "sent"
  /\ Sets(b, t, "failed")
  /\ UNCHANGED <<statistics, statRequest, phase, metadata, changes, disturbed,
                 wrote>>

(* An answer is lost, or the batch is cancelled: nothing else is decided,  *)
(* but what was sent may still be carried out.                             *)
BatchRaises(b) ==
  /\ phase[b] \in {"reading", "running"}
  /\ phase' = [phase EXCEPT ![b] = "raised"]
  /\ item' = [item EXCEPT ![b] =
       [t \in Tables |-> IF item[b][t] = "sent" THEN "lost" ELSE item[b][t]]]
  /\ UNCHANGED <<statistics, statRequest, metadata, changes, disturbed, wrote>>

CarriedLate(b, t) ==
  /\ item[b][t] = "lost"
  /\ Carries(b, t)
  /\ Sets(b, t, "waiting")
  /\ UNCHANGED <<statRequest, phase, metadata, changes>>

BatchReturns(b) ==
  /\ phase[b] = "running"
  /\ \A t \in statRequest[b].tables : item[b][t] \notin {"waiting", "sent"}
  /\ phase' = [phase EXCEPT ![b] = "returned"]
  /\ UNCHANGED <<statistics, statRequest, metadata, item, changes, disturbed,
                 wrote>>

StatNext ==
  \/ \E b \in Batches : ReadMetadata(b) \/ BatchRaises(b) \/ BatchReturns(b)
  \/ \E b \in Batches, t \in Tables :
       \/ Decide(b, t) \/ SendAccepted(b, t) \/ AnsweredExists(b, t)
       \/ SendRefused(b, t) \/ CarriedLate(b, t)
  \/ \E t \in Known : OtherChanges(t)

StatSpec == StatInit /\ [][StatNext]_statVars

-----------------------------------------------------------------------------
StatTypeOK ==
  /\ statistics \in [Known -> Kinds]
  /\ statRequest \in [Batches -> StatRequests]
  /\ phase \in [Batches -> {"reading", "running", "returned", "raised"}]
  /\ metadata \in [Batches -> [Known -> Kinds]]
  /\ item \in [Batches -> [Tables -> ItemPlace]]
  /\ changes \in 0..MaxChanges
  /\ disturbed \in [Batches -> SUBSET Known]
  /\ wrote \in [Batches -> SUBSET Known]

(* Statistics that somebody created after a batch had found none are never *)
(* replaced by it, however late it gets to the table: as far as the batch  *)
(* changes the type of a table that it saw without statistics, it starts   *)
(* from none.                                                              *)
UnseenStatisticsAreKept ==
  [][\A b \in Batches, t \in Known :
       t \in wrote'[b] \ wrote[b] /\ metadata[b][t] = NoStatistics
         => statistics[t] = NoStatistics]_statVars

(* A status tells what became of the table, in spite of the old metadata:  *)
(* unless somebody else changed its statistics meanwhile, a table counted  *)
(* as configured has the type asked for; a table refused, already in order *)
(* or failed was not changed by the batch; a table reported as created had *)
(* none and as updated had some; and a table gets a type it supports.      *)
StatusDescribesTable ==
  \A b \in Batches, t \in Tables :
    LET s == item[b][t] IN
    /\ s \in Configured /\ t \notin disturbed[b] =>
         statistics[t] = statRequest[b].type
    /\ s \in Refused \cup {"failed", "refreshed", "already_configured",
                           "already_exists"} => t \notin wrote[b]
    /\ s = "created" => metadata[b][t] = NoStatistics /\ t \in wrote[b]
    /\ s = "updated" => metadata[b][t] # NoStatistics
    /\ s = "updated" /\ t \notin disturbed[b] => t \in wrote[b]
    /\ t \in Known /\ t \in wrote[b] =>
         /\ t \notin Unsupported
         /\ t \in CountOnly => statRequest[b].type = "RECORD_COUNT"
=============================================================================
