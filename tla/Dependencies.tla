----------------------------- MODULE Dependencies -----------------------------
(***************************************************************************)
(* The views analytical models are built on                                *)
(* (datasphere_core/commands/analytical_models.py): models and views are   *)
(* searched at the same time, the dependencies of the selected models are  *)
(* resolved at most MaxResolving at a time, and a view that several models *)
(* share is kept for the first of them.  Whichever task ends first, models *)
(* are taken and reported in the order of the input.                       *)
(*                                                                         *)
(* Without deduplication the batch is one of run_batch (BatchExecution).   *)
(***************************************************************************)
EXTENDS Integers, SequencesExt

CONSTANTS
  Models,        (* analytical models                                       *)
  ViewEntities,  (* entities with #isViewEntity                             *)
  OtherEntities, (* tables, flows and other entities                        *)
  Lineages,      (* what the tenant may answer: direct dependencies of each *)
                 (* entity, in the order of the answer                      *)
  Selected,      (* references a command may be given, in order             *)
  MaxResolving   (* max_concurrency                                         *)

ASSUME SelectedAssumption == Selected \subseteq Seq(Models)

Entities == Models \cup ViewEntities \cup OtherEntities

(* An answer is a finite tree: whatever entities one looks at, some of them*)
(* depend on none of the others.                                           *)
ASSUME LineageAssumption ==
  \A answer \in Lineages :
    /\ answer \in [Entities -> Seq(Entities)]
    /\ \A some \in SUBSET Entities :
         some # {} => \E e \in some : ToSet(answer[e]) \cap some = {}

Searches == {"models", "views"}

VARIABLES
  lineage,     (* the tenant: what entities depend on                       *)
  foundModels, (* models the repository search finds                        *)
  foundViews,  (* views it finds, and knows the space of                    *)
  selected,    (* the references, as the command resolves them              *)
  stage,       (* where the command is suspended                            *)
  search,      (* the two searches                                          *)
  resolving,   (* the tasks, one for each reference                         *)
  kept,        (* dependencies of the references taken so far               *)
  reportedAt   (* indexes reported, in order                                *)

tenantAnswers == <<lineage, foundModels, foundViews, selected>>
depVars == <<tenantAnswers, stage, search, resolving, kept, reportedAt>>

Indexes == 1..Len(selected)
Over == {"resolved", "failed", "cancelled"}

-----------------------------------------------------------------------------
DepInit ==
  /\ lineage \in Lineages
  /\ foundModels \in SUBSET Models
  /\ foundViews \in SUBSET ViewEntities
  /\ selected \in Selected
  /\ stage = "searching"
  /\ search = [s \in Searches |-> "running"]
  /\ resolving = <<>>
  /\ kept = <<>>
  /\ reportedAt = <<>>

(* _collect_views: every view of a tree, before those it depends on, once  *)
(* for every way that leads to it.                                         *)
CollectViews(m) ==
  LET collected[e \in Entities] ==
        (IF e \in ViewEntities THEN <<e>> ELSE <<>>)
          \o FlattenSeq([k \in DOMAIN lineage[e] |-> collected[lineage[e][k]]])
  IN  collected[m]

(* A list without the views that were seen, each where it comes first: the *)
(* keys of a dictionary, and what is left of them for a later model.       *)
Distinct(views, seen) ==
  FoldLeft(LAMBDA list, v : IF v \in seen \cup ToSet(list) THEN list
                            ELSE Append(list, v),
           <<>>, views)

(* Mutant: the list is turned round after its duplicates were removed.     *)
ReversedLate(m) == Reverse(Distinct(CollectViews(m), {}))
BottomUp(m) == Distinct(Reverse(CollectViews(m)), {})

(* A view the search did not find has no space, and is kept for each model.*)
Resolution(i) ==
  IF selected[i] \in foundModels THEN BottomUp(selected[i]) ELSE <<>>
Seen == foundViews \cap UNION {ToSet(kept[j]) : j \in DOMAIN kept}
Deduplicated(i) == Distinct(Resolution(i), Seen)

-----------------------------------------------------------------------------
SearchAnswered(s) ==
  /\ stage = "searching" /\ search[s] = "running"
  /\ search' = [search EXCEPT ![s] = "answered"]
  /\ UNCHANGED <<tenantAnswers, stage, resolving, kept, reportedAt>>

(* Either search fails, or the command is cancelled: both are cancelled    *)
(* and awaited.                                                            *)
SearchFails ==
  /\ stage = "searching"
  /\ \E s \in Searches : search[s] = "running"
  /\ stage' = "drainingSearch"
  /\ UNCHANGED <<tenantAnswers, search, resolving, kept, reportedAt>>

SearchCancelled(s) ==
  /\ stage = "drainingSearch" /\ search[s] = "running"
  /\ search' = [search EXCEPT ![s] = "cancelled"]
  /\ UNCHANGED <<tenantAnswers, stage, resolving, kept, reportedAt>>

SearchDrained ==
  /\ stage = "drainingSearch"
  /\ \A s \in Searches : search[s] # "running"
  /\ stage' = "raised"
  /\ UNCHANGED <<tenantAnswers, search, resolving, kept, reportedAt>>

ContextLoaded ==
  /\ stage = "searching"
  /\ \A s \in Searches : search[s] = "answered"
  /\ resolving' = [i \in Indexes |-> "queued"]
  /\ stage' = "awaiting"
  /\ UNCHANGED <<tenantAnswers, search, kept, reportedAt>>

-----------------------------------------------------------------------------
Moves(i, where) ==
  /\ resolving' = [resolving EXCEPT ![i] = where]
  /\ UNCHANGED <<tenantAnswers, stage, search, kept, reportedAt>>

AdmitResolution(i) ==
  /\ stage \in {"awaiting", "reporting"} /\ resolving[i] = "queued"
  /\ \A j \in Indexes : j < i => resolving[j] # "queued"
  /\ Cardinality({j \in Indexes : resolving[j] = "running"}) < MaxResolving
  /\ Moves(i, "running")

Resolved(i) ==
  /\ stage \in {"awaiting", "reporting"} /\ resolving[i] = "running"
  /\ Moves(i, "resolved")

ResolutionFails(i) ==
  /\ stage \in {"awaiting", "reporting"} /\ resolving[i] = "running"
  /\ Moves(i, "failed")

(* The command is after the next reference, whatever else is resolved.     *)
TakeNext ==
  LET i == Len(kept) + 1 IN
  /\ stage = "awaiting" /\ i \in Indexes
  /\ resolving[i] = "resolved"
  /\ kept' = Append(kept, Deduplicated(i))
  /\ stage' = "reporting"
  /\ UNCHANGED <<tenantAnswers, search, resolving, reportedAt>>

Reported ==
  /\ stage = "reporting"
  /\ reportedAt' = Append(reportedAt, Len(kept))
  /\ stage' = "awaiting"
  /\ UNCHANGED <<tenantAnswers, search, resolving, kept>>

(* The task awaited has failed, a callback raises, or the command is       *)
(* cancelled: all tasks are cancelled and awaited.                         *)
ResolvingStops ==
  /\ stage \in {"awaiting", "reporting"}
  /\ stage = "reporting" \/ Len(kept) < Len(selected)
  /\ stage' = "draining"
  /\ UNCHANGED <<tenantAnswers, search, resolving, kept, reportedAt>>

TaskCancelled(i) ==
  /\ stage = "draining" /\ resolving[i] \notin Over
  /\ Moves(i, "cancelled")

(* Mutant: the cancelled tasks are not awaited.                            *)
DependenciesRaisedAtOnce ==
  /\ stage = "draining"
  /\ stage' = "raised"
  /\ UNCHANGED <<tenantAnswers, search, resolving, kept, reportedAt>>

DependenciesRaised ==
  /\ stage = "draining"
  /\ \A i \in Indexes : resolving[i] \in Over
  /\ stage' = "raised"
  /\ UNCHANGED <<tenantAnswers, search, resolving, kept, reportedAt>>

DependenciesReturned ==
  /\ stage = "awaiting" /\ Len(kept) = Len(selected)
  /\ stage' = "returned"
  /\ UNCHANGED <<tenantAnswers, search, resolving, kept, reportedAt>>

DepNext ==
  \/ \E s \in Searches : SearchAnswered(s) \/ SearchCancelled(s)
  \/ SearchFails \/ SearchDrained \/ ContextLoaded
  \/ \E i \in DOMAIN resolving :
       \/ AdmitResolution(i) \/ Resolved(i) \/ ResolutionFails(i)
       \/ TaskCancelled(i)
  \/ TakeNext \/ Reported \/ ResolvingStops
  \/ DependenciesRaised \/ DependenciesReturned

DepSpec == DepInit /\ [][DepNext]_depVars

-----------------------------------------------------------------------------
DepTypeOK ==
  /\ stage \in {"searching", "drainingSearch", "awaiting", "reporting",
                "draining", "returned", "raised"}
  /\ search \in [Searches -> {"running", "answered", "cancelled"}]
  /\ \A i \in DOMAIN resolving : resolving[i] \in {"queued", "running"} \cup Over
  /\ Len(kept) <= Len(selected)
  /\ \A i \in DOMAIN kept : kept[i] \in Seq(ViewEntities)

(* An entity and all it depends on, directly or not.                      *)
Tree(e) ==
  LET tree[x \in Entities] == {x} \cup UNION {tree[y] : y \in ToSet(lineage[x])}
  IN  tree[e]
Below(e) == UNION {Tree(y) : y \in ToSet(lineage[e])}

(* The views a reference needs, if the search has found its model.         *)
Needs(i) ==
  IF selected[i] \in foundModels THEN Tree(selected[i]) \cap ViewEntities ELSE {}

(* In whatever order the tasks end, each view that has a space is kept for *)
(* exactly the first reference that depends on it, and every other one for *)
(* each of them; and no view comes before one it depends on, neither in    *)
(* its model nor across models, however often it occurs in the trees.      *)
KeptOnceBottomUp ==
  \A i \in DOMAIN kept :
    /\ ToSet(kept[i]) =
         {v \in Needs(i) : v \in foundViews =>
                             \A j \in 1..(i - 1) : v \notin Needs(j)}
    /\ \A k, l \in DOMAIN kept[i] :
         /\ k # l => kept[i][k] # kept[i][l]
         /\ kept[i][l] \in Below(kept[i][k]) => l < k
    /\ \A j \in 1..(i - 1) :
         \A v \in ToSet(kept[j]), w \in ToSet(kept[i]) :
           w \in Below(v) => w \notin foundViews

(* When the command has ended, nothing it started is still going, and what *)
(* it returns was reported, in the order of the input.                     *)
NoResolutionOutlives ==
  /\ stage \in {"returned", "raised"} =>
       /\ \A s \in Searches : search[s] # "running"
       /\ \A i \in DOMAIN resolving : resolving[i] \in Over
  /\ reportedAt = [k \in DOMAIN reportedAt |-> k]
  /\ stage = "returned" => Len(reportedAt) = Len(selected)
=============================================================================
