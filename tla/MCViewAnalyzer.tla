---------------------------- MODULE MCViewAnalyzer ----------------------------
(***************************************************************************)
(* Model checking of ViewAnalyzer.  One call is enough: other calls for    *)
(* the view are to it what everybody else is.                              *)
(***************************************************************************)
EXTENDS ViewAnalyzer
=============================================================================
