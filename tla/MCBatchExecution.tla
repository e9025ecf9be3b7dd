-------------------------- MODULE MCBatchExecution --------------------------
(***************************************************************************)
(* Model checking of BatchExecution on small batches, and what the         *)
(* documentation says of the progress updates of every batch.              *)
(***************************************************************************)
EXTENDS BatchExecution

Phases(P) == {k \in 1..Len(lifecycle) : lifecycle[k].phase \in P}

(* docs/datasphere-core-execution.md: "exactly one terminal phase", of     *)
(* every command that was started and has ended.                           *)
ExactlyOneTerminalPhase ==
  command \in Ended => Cardinality(Phases(TerminalPhase)) = 1
=============================================================================
