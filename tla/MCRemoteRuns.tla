----------------------------- MODULE MCRemoteRuns -----------------------------
(***************************************************************************)
(* Model checking of RemoteRuns, and what run_task_chain_batch,            *)
(* persist_view_batch and unpersist_view_batch say of a cancellation.      *)
(***************************************************************************)
EXTENDS RemoteRuns

(* "CommandCancelledError: If the command was cancelled after a task chain *)
(* had already started remotely": a caller whose cancellation reached an   *)
(* operation that was polling a run still going is told so.                *)
CancellationNamesRun ==
  /\ command = "raised" /\ error \in Cancellation
  /\ \E i \in Items : task[i] = "cancelled" /\ stage[i] = "polling" /\ run[i] = "running"
  => error = "command_cancelled"
=============================================================================
