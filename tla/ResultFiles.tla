----------------------------- MODULE ResultFiles -----------------------------
(***************************************************************************)
(* The result files of a workspace and the runs of actions that write      *)
(* them.  A run belongs to a process of its own or to one the terminal     *)
(* shows (module Terminal), and several processes may share a workspace.   *)
(*                                                                         *)
(* Every file is replaced as a whole: the content goes to a temporary file,*)
(* which is synchronised and then renamed.  Nothing synchronises the       *)
(* directory, so that a rename survives a power loss only once the file    *)
(* system wrote it (Commit).  An action makes sure that a result file is   *)
(* there, reads its tasks, runs a batch and writes the result; the         *)
(* measurement also rewrites the file for every model that is done.        *)
(*                                                                         *)
(* The items of a run are the rows of its task file, by number: results    *)
(* are written in that order whatever the order they come in, so that a    *)
(* document is told by the set of its items.                               *)
(***************************************************************************)
EXTENDS Naturals

CONSTANTS Runs,           \* runs of actions, of every process
          Commands,       \* commands (exports: by space), each with its file
          Checkpointing,  \* commands that write the file for every item
          Exporting,      \* commands without a task file
          MaxItems,       \* bound on the items of a run of each command
          MaxPowerLosses  \* bound on power losses

ASSUME CommandsAssumption ==
  Checkpointing \subseteq Commands /\ Exporting \subseteq Commands
ASSUME ItemsAssumption == MaxItems \in [Commands -> Nat]
ASSUME PowerLossesAssumption == MaxPowerLosses \in Nat

VARIABLES visible,     \* the document a reader of a result file finds
          durable,     \* the document found there after a power loss
          run,         \* what a run does
          superseded,  \* runs whose last document another run replaced
          powerLosses

fileVars == <<visible, durable, run, superseded, powerLosses>>

Counts == UNION {0..MaxItems[c] : c \in Commands}
Items == Counts \ {0}

Missing == [kind |-> "missing", items |-> {}, synced |-> TRUE]
Template == [kind |-> "template", items |-> {}, synced |-> TRUE]
Result(r, items) ==
  [kind |-> "result", run |-> r, items |-> items, synced |-> TRUE]
Documents ==
  [kind : {"missing", "template"}, items : {{}}, synced : BOOLEAN]
    \cup [kind : {"result"}, run : Runs, items : SUBSET Items,
          synced : BOOLEAN]

IsResult(d) == d.kind = "result"
Writing == {"template", "checkpoint", "final"}
Over == {"none", "returned", "raised", "killed"}

FileTypeOK ==
  /\ visible \in [Commands -> Documents]
  /\ durable \in [Commands -> Documents]
  /\ run \in [Runs -> [command : Commands, total : Counts,
                       place : Over \cup Writing
                                 \cup {"reading", "batch", "logging", "summary"},
                       temp : {"none", "open", "synced"},
                       done : SUBSET Items, item : Nat,
                       logged : SUBSET Items, failing : BOOLEAN]]
  /\ superseded \subseteq Runs
  /\ powerLosses \in 0..MaxPowerLosses

Fresh(c) ==
  [command |-> c, total |-> 0, place |-> "none", temp |-> "none", done |-> {},
   item |-> 0, logged |-> {}, failing |-> FALSE]

FileInit ==
  /\ visible = [c \in Commands |-> Missing]
  /\ durable = visible
  /\ run \in {[r \in Runs |-> Fresh(c[r])] : c \in [Runs -> Commands]}
  /\ superseded = {}
  /\ powerLosses = 0

UnchangedFiles == UNCHANGED <<visible, durable, superseded, powerLosses>>
Goes(r, place) == run' = [run EXCEPT ![r].place = place]

-----------------------------------------------------------------------------
(* A run begins: it looks for its result file, and writes a template when  *)
(* there is none.  Another process may create it in between.               *)
Reads(c) == IF c \in Exporting THEN "batch" ELSE "reading"

Begin(r) ==
  /\ run[r].place = "none"
  /\ Goes(r, IF visible[run[r].command].kind = "missing"
               THEN "template" ELSE Reads(run[r].command))
  /\ UnchangedFiles

(* The task file is read: a deviation from its schema raises.  An export   *)
(* finds its items itself while the batch is going.                        *)
ReadTasks(r) ==
  /\ run[r].place = "reading"
  /\ \/ \E n \in 0..MaxItems[run[r].command] :
          run' = [run EXCEPT ![r].place = "batch", ![r].total = n]
     \/ Goes(r, "raised")
  /\ UnchangedFiles

Discovered(r) ==
  /\ run[r].place = "batch" /\ run[r].command \in Exporting
  /\ run[r].total = 0 /\ run[r].done = {}
  /\ \E n \in 1..MaxItems[run[r].command] : run' = [run EXCEPT ![r].total = n]
  /\ UnchangedFiles

-----------------------------------------------------------------------------
(* Writing a document: into a temporary file, which is synchronised and    *)
(* renamed.  An error removes the temporary file and leaves the result.    *)
Payload(r) ==
  IF run[r].place = "template" THEN Template
  ELSE Result(r, IF run[r].place = "final" THEN 1..run[r].total
                                           ELSE run[r].done)

Open(r) ==
  /\ run[r].place \in Writing /\ run[r].temp = "none"
  /\ run' = [run EXCEPT ![r].temp = "open"]
  /\ UnchangedFiles

Synchronise(r) ==
  /\ run[r].temp = "open"
  /\ run' = [run EXCEPT ![r].temp = "synced"]
  /\ UnchangedFiles

Afterwards(r) ==
  IF run[r].place = "template" THEN Reads(run[r].command)
  ELSE IF run[r].place = "checkpoint" THEN "logging" ELSE "summary"

Renamed(r) ==
  LET c == run[r].command
      d == [Payload(r) EXCEPT !.synced = run[r].temp = "synced"]
      replaced == {s \in Runs \ {r} : IsResult(visible[c]) /\ visible[c].run = s}
  IN  /\ visible' = [visible EXCEPT ![c] = d]
      /\ superseded' = IF IsResult(d) THEN (superseded \ {r}) \cup replaced
                                      ELSE superseded \cup replaced

(* Mutant: the content is not synchronised before.                         *)
ReplaceUnsynced(r) ==
  /\ run[r].temp = "open"
  /\ Renamed(r)
  /\ run' = [run EXCEPT ![r].place = Afterwards(r), ![r].temp = "none"]
  /\ UNCHANGED <<durable, powerLosses>>

Replace(r) ==
  /\ run[r].temp = "synced"
  /\ Renamed(r)
  /\ run' = [run EXCEPT ![r].place = Afterwards(r), ![r].temp = "none"]
  /\ UNCHANGED <<durable, powerLosses>>

(* A checkpoint that cannot be written fails the batch, which ends after   *)
(* the reports that wait already.                                          *)
WriteFails(r) ==
  /\ run[r].place \in Writing
  /\ run' = [run EXCEPT ![r].temp = "none",
               ![r].place = IF @ = "checkpoint" THEN "batch" ELSE "raised",
               ![r].failing = @ \/ run[r].place = "checkpoint"]
  /\ UnchangedFiles

-----------------------------------------------------------------------------
(* The batch: an item is done, in any order.  The measurement then writes  *)
(* what it has and reports the item afterwards; the others report at once  *)
(* and write at the end.                                                   *)
(* Mutant: an item is reported before it is written.                       *)
ReportedFirst(r) ==
  /\ run[r].place = "batch"
  /\ \E i \in 1..run[r].total \ run[r].done :
       run' = [run EXCEPT ![r].done = @ \cup {i}, ![r].item = i,
                 ![r].logged = @ \cup {i},
                 ![r].place = IF run[r].command \in Checkpointing
                                THEN "checkpoint" ELSE "batch"]
  /\ UnchangedFiles

ItemDone(r) ==
  /\ run[r].place = "batch"
  /\ \E i \in 1..run[r].total \ run[r].done :
       run' = [run EXCEPT ![r].done = @ \cup {i}, ![r].item = i,
                 ![r].place = IF run[r].command \in Checkpointing
                                THEN "checkpoint" ELSE "batch"]
  /\ UnchangedFiles

Logged(r) ==
  /\ run[r].place = "logging"
  /\ run' = [run EXCEPT ![r].logged = @ \cup {run[r].item}, ![r].place = "batch"]
  /\ UnchangedFiles

BatchReturns(r) ==
  /\ run[r].place = "batch" /\ ~run[r].failing
  /\ run[r].done = 1..run[r].total
  /\ Goes(r, "final")
  /\ UnchangedFiles

(* A cancellation of actions of one process arrives at their awaits; each  *)
(* batch cleans up before it lets that pass.                               *)
Cancelled(R) ==
  /\ \A r \in R : run[r].place = "batch"
  /\ run' = [r \in Runs |-> IF r \in R THEN [run[r] EXCEPT !.failing = TRUE]
                                      ELSE run[r]]
  /\ UnchangedFiles

(* The batch raises: an item or a report failed, or it was cancelled.  The *)
(* action lets the exception pass and writes nothing more.                 *)
(* Mutant: what was done is written all the same.                          *)
BatchRaisesSaving(r) ==
  /\ run[r].place = "batch"
  /\ \/ Goes(r, "raised")
     \/ Goes(r, "checkpoint")
  /\ UnchangedFiles

BatchRaises(r) ==
  /\ run[r].place = "batch"
  /\ Goes(r, "raised")
  /\ UnchangedFiles

Summarised(r) ==
  /\ run[r].place = "summary"
  /\ Goes(r, "returned")
  /\ UnchangedFiles

-----------------------------------------------------------------------------
(* The file system writes a rename; a process dies with the actions it     *)
(* runs; the power fails.  The rename may survive before the content, when *)
(* that was not synchronised.                                              *)
Commit(c) ==
  /\ durable[c] # visible[c]
  /\ durable' = [durable EXCEPT ![c] = visible[c]]
  /\ UNCHANGED <<visible, run, superseded, powerLosses>>

Killed(s) == [s EXCEPT !.place = "killed", !.temp = "none"]

Kill(R) ==
  /\ \A r \in R : run[r].place \notin Over
  /\ run' = [r \in Runs |-> IF r \in R THEN Killed(run[r]) ELSE run[r]]
  /\ UnchangedFiles

PowerLoss ==
  /\ powerLosses < MaxPowerLosses
  /\ powerLosses' = powerLosses + 1
  /\ visible' = durable
  /\ run' = [r \in Runs |-> IF run[r].place \in Over THEN run[r] ELSE Killed(run[r])]
  /\ UNCHANGED <<durable, superseded>>

RunStep(r) ==
  \/ ReadTasks(r) \/ Discovered(r)
  \/ Open(r) \/ Synchronise(r) \/ Replace(r) \/ WriteFails(r)
  \/ ItemDone(r) \/ Logged(r) \/ BatchReturns(r) \/ BatchRaises(r)
  \/ Summarised(r)

FileNext ==
  \/ \E r \in Runs : Begin(r) \/ RunStep(r)
  \/ \E R \in SUBSET Runs : Cancelled(R) \/ Kill(R)
  \/ \E c \in Commands : Commit(c)
  \/ PowerLoss

FileSpec == FileInit /\ [][FileNext]_fileVars

-----------------------------------------------------------------------------
(* Whoever opens a result file finds a whole document, also after a power  *)
(* loss: the content was synchronised before its name could be (_atomic_   *)
(* write).                                                                 *)
FileIsWhole ==
  \A c \in Commands : visible[c].synced /\ durable[c].synced

(* A measurement that was reported is in the file, until another run       *)
(* replaced that: whatever fails afterwards, a later checkpoint, the batch *)
(* or the process (checkpoint).                                            *)
ReportedIsOnDisk ==
  powerLosses = 0 =>
    \A r \in Runs \ superseded :
      run[r].logged # {} =>
        LET d == visible[run[r].command]
        IN  IsResult(d) /\ d.run = r /\ run[r].logged \subseteq d.items

(* A file never shows part of a run, unless its command checkpoints, and   *)
(* then only items that are done; a run that returned left all of them.    *)
ResultsAreComplete ==
  /\ \A c \in Commands : \A d \in {visible[c], durable[c]} :
       IsResult(d) =>
         /\ run[d.run].command = c
         /\ d.items \subseteq run[d.run].done
         /\ c \notin Checkpointing => d.items = 1..run[d.run].total
  /\ powerLosses = 0 =>
       \A r \in Runs \ superseded :
         run[r].place = "returned" =>
           visible[run[r].command] = Result(r, 1..run[r].total)

(* A template never replaces a result (initialize_result: "Creates a       *)
(* missing result schema without replacing an existing result").           *)
ExistingResultIsKept ==
  [][\A c \in Commands :
       visible'[c].kind = "template" => ~IsResult(visible[c])]_fileVars

=============================================================================
