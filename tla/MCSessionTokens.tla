---------------------------- MODULE MCSessionTokens ----------------------------
(***************************************************************************)
(* Model checking of SessionTokens with two processes, one of which uses   *)
(* its session from two coroutines, and what auth.py says of its locks.    *)
(***************************************************************************)
EXTENDS SessionTokens, TLC

CONSTANTS a, b, c

TwoProcesses == (a :> 1 @@ b :> 1 @@ c :> 2)

(* auth.py, authenticate: "Start authentication with lock to prevent       *)
(* parallel processes from writing tokens".                                *)
NoParallelWrites ==
  \A v, w \in writes : Of(v.by) = Of(w.by)
=============================================================================
