------------------------------- MODULE MCTenant -------------------------------
(***************************************************************************)
(* Model checking of the commands that change or read metadata of the      *)
(* tenant: Partitioning, TableStatistics and Dependencies.  They share no  *)
(* state, so that one of them moves in a behaviour, and the others keep    *)
(* one initial state.                                                      *)
(***************************************************************************)
EXTENDS Partitioning, TableStatistics, Dependencies

VARIABLE moving

tenantVars == <<moving, partVars, statVars, depVars>>

(* Partitionings to begin with: none, two years, one of them locked, one   *)
(* that begins before a year, and two years in one range.                  *)
YearsFrom(low, high) == [low |-> low, high |-> high]
Partitioned(ranges, locked) ==
  [column |-> "fiscal", ranges |-> ranges, locked |-> locked]
MCExisting ==
  {NoPartitioning,
   Partitioned({YearsFrom(1, 2), YearsFrom(2, 3)}, {}),
   Partitioned({YearsFrom(1, 2), YearsFrom(2, 3)}, {YearsFrom(2, 3)}),
   Partitioned({YearsFrom(NotAYear, 2)}, {}),
   Partitioned({YearsFrom(1, 3)}, {YearsFrom(1, 3)})}
MCYears == 1..3

(* Trees of two models and three views that share views and tables, with   *)
(* views that are reached on several ways.                                 *)
Answers(entities) ==
  {<<>>} \cup {<<e>> : e \in entities}
    \cup {<<e, f>> : e, f \in entities}
MCLineages ==
  {[sales |-> a, stock |-> b, v1 |-> c, v2 |-> <<"v3">>, v3 |-> <<>>,
    t1 |-> d] :
     a \in {s \in Answers({"v1", "v2", "v3"}) : Len(s) = 2},
     b \in {<<"v2">>, <<"t1", "v1">>},
     c \in Answers({"v2", "t1"}),
     d \in {<<>>, <<"v3">>}}
MCSelected == {<<"sales", "stock">>, <<"stock", "sales", "stock">>}

-----------------------------------------------------------------------------
PartResting ==
  /\ PartInit
  /\ \A v \in Views : partitioning[v] = NoPartitioning
  /\ \A c \in Callers : request[c].kind = "delete"
StatResting ==
  /\ StatInit
  /\ \A t \in Known : statistics[t] = NoStatistics
  /\ \A b \in Batches : statRequest[b] = [kind |-> "refresh", tables |-> {"orders"}]
DepResting ==
  /\ DepInit
  /\ lineage = [sales |-> <<"v1", "v1">>, stock |-> <<"v2">>, v1 |-> <<>>,
                v2 |-> <<"v3">>, v3 |-> <<>>, t1 |-> <<>>]
  /\ foundModels = {} /\ foundViews = {}
  /\ selected = <<"sales", "stock">>

(* The search finds every model, or all but one, and misses at most a view.*)
DepSearched ==
  /\ DepInit
  /\ foundModels \in {Models, {"sales"}}
  /\ foundViews \in {ViewEntities, {"v1", "v3"}}

TenantInit ==
  \/ moving = "partitioning" /\ PartInit /\ StatResting /\ DepResting
  \/ moving = "statistics" /\ PartResting /\ StatInit /\ DepResting
  \/ moving = "dependencies" /\ PartResting /\ StatResting /\ DepSearched

TenantNext ==
  \/ /\ moving = "partitioning" /\ PartNext
     /\ UNCHANGED <<moving, statVars, depVars>>
  \/ /\ moving = "statistics" /\ StatNext
     /\ UNCHANGED <<moving, partVars, depVars>>
  \/ /\ moving = "dependencies" /\ DepNext
     /\ UNCHANGED <<moving, partVars, statVars>>

TenantSpec == TenantInit /\ [][TenantNext]_tenantVars
=============================================================================
