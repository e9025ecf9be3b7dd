------------------------------- MODULE MCClient -------------------------------
(***************************************************************************)
(* Model checking of what goes on at the machine of the user: Terminal     *)
(* with ResultFiles, HttpLog and OAuthCallback.  As in MCTenant one part   *)
(* moves in a behaviour.                                                   *)
(***************************************************************************)
EXTENDS Terminal, HttpLog, OAuthCallback, TLC

VARIABLE part

clientVars == <<part, termVars, logVars, loginVars>>

MCSteps == [c \in Commands |-> IF c \in Checkpointing THEN 2 ELSE 1]
MCMaxItems == [c \in Commands |-> IF c \in Checkpointing THEN 2 ELSE 1]
MCSymmetry == Permutations(Apps) \cup Permutations(Runs)

(* A measurement next to an export with a power loss, two measurements,    *)
(* settings that are saved next to two exports, and keys that are handled  *)
(* late in a process that runs two exports.  A bound that is used up takes *)
(* what it counts out of a part.                                           *)
Chosen(commands) == {run[r].command : r \in Runs} = commands
Beginning ==
  /\ visible = [c \in Commands |-> Missing] /\ durable = visible
  /\ run \in {[r \in Runs |-> Fresh(c[r])] : c \in [Runs -> Commands]}
  /\ superseded = {}
  /\ app = [p \in Apps |-> Down] /\ worker = [r \in Runs |-> Idle]
Measuring ==
  /\ Beginning
  /\ \/ Chosen(Commands) /\ powerLosses = 0
     \/ Chosen(Checkpointing) /\ powerLosses = MaxPowerLosses
  /\ settings = "keyed" /\ saves = MaxSaves /\ lateKeys = MaxLate
Configuring ==
  /\ Beginning /\ Chosen(Exporting) /\ powerLosses = 0
  /\ settings \in {"none", "keyed"} /\ saves = 0 /\ lateKeys = MaxLate
Typing ==
  /\ Beginning /\ Chosen(Exporting) /\ powerLosses = MaxPowerLosses
  /\ settings = "keyed" /\ saves = MaxSaves /\ lateKeys = 0

OneProcess == \E p \in Apps : \A q \in Apps \ {p} : app[q] = Down

ClientInit ==
  /\ LogInit /\ LoginInit
  /\ \/ part = "terminal" /\ (Measuring \/ Configuring)
     \/ part = "keys" /\ Typing
     \/ part \in {"log", "login"} /\ Configuring /\ settings = "keyed"

ClientNext ==
  \/ part = "terminal" /\ TermNext /\ UNCHANGED <<part, logVars, loginVars>>
  \/ part = "keys" /\ TermNext /\ OneProcess' /\ UNCHANGED <<part, logVars, loginVars>>
  \/ part = "log" /\ LogNext /\ UNCHANGED <<part, termVars, loginVars>>
  \/ part = "login" /\ LoginNext /\ UNCHANGED <<part, termVars, logVars>>

ClientSpec == ClientInit /\ [][ClientNext]_clientVars
=============================================================================
