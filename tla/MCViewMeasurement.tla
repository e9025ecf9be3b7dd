-------------------------- MODULE MCViewMeasurement --------------------------
(***************************************************************************)
(* Model checking of ViewMeasurement on small requests, and what the       *)
(* documentation and the comments promise of a cancelled measurement.      *)
(***************************************************************************)
EXTENDS ViewMeasurement

(* Two models that share a view, one of them with a second view and a      *)
(* dependency that could not be resolved, and a model without views.       *)
SharedView == <<{1}, {1, 2}, {}>>
IncompleteModels == {2}

TwoViews == <<{1, 2}>>
NoModel == {}

(* analytical_models.py on _run_cleanup: "The cleanup is shielded so that  *)
(* it still finishes if the surrounding command is cancelled".             *)
CleanupStillFinishes == \A v \in Views : cleanup[v] # "aborted"
=============================================================================
