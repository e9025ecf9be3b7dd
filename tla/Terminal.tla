------------------------------ MODULE Terminal ------------------------------
(***************************************************************************)
(* Processes that show the interactive terminal in one workspace: the      *)
(* screens, the workers that execute actions, and the settings file they   *)
(* share.  The runs of the actions are those of ResultFiles.               *)
(*                                                                         *)
(* A process has one event loop: while an action works without awaiting,   *)
(* or settings are saved, no key is handled (Free).  A key goes to the     *)
(* screen that is on top when it is pressed, and waits in that screen's    *)
(* queue: it may be handled late, when other screens came or its own was   *)
(* removed.  There can be any number of late keys; MaxLate bounds them.    *)
(***************************************************************************)
EXTENDS ResultFiles, Sequences

CONSTANTS Apps,       \* processes
          Steps,      \* number of questions a command asks
          Texts,      \* what a user saves as settings
          Nil,        \* no process, no command
          MaxSaves,   \* bound on saved settings
          MaxLate     \* bound on keys that are handled late

ASSUME StepsAssumption == Steps \in [Commands -> Nat \ {0}]
ASSUME TextsAssumption == Texts \subseteq {"broken", "invalid", "unkeyed", "keyed"}
ASSUME NilAssumption == Nil \notin Runs \cup Apps \cup Commands
ASSUME SavesAssumption == MaxSaves \in Nat /\ MaxLate \in Nat

VARIABLES app,       \* the processes
          worker,    \* the worker that executes a run, in the screen of its own
          settings,  \* the content of the settings file
          saves,     \* the number of saved settings
          lateKeys   \* the number of late keys

ownVars == <<settings, saves>>
termVars == <<app, worker, ownVars, lateKeys, fileVars>>

(* Screens, and the stack of them: what is below the menu is blank.        *)
Menu == [kind |-> "entry", step |-> 0, of |-> Nil]
Settings == [kind |-> "settings", step |-> 0, of |-> Nil]
Question(c, k) == [kind |-> "param", step |-> k, of |-> c]
Execution(r) == [kind |-> "execution", step |-> 0, of |-> r]

Screens ==
  [kind : {"entry", "settings"}, step : {0}, of : {Nil}]
    \cup [kind : {"param"}, step : Nat, of : Commands]
    \cup [kind : {"execution"}, step : {0}, of : Runs]

(* Settings: no file, a file that is being written, no TOML, not what is   *)
(* required, and required without and with a secret.                       *)
Contents == {"none", "torn", "broken", "invalid", "unkeyed", "keyed"}
Valid == {"unkeyed", "keyed"}

(* left: the questions (by command) and settings (Nil) that were removed   *)
(* and may have a key waiting; rushed: a key was handled late.             *)
Down == [life |-> "down", stack |-> <<>>, left |-> {}, rushed |-> FALSE,
         memory |-> "none", saving |-> "none"]
Idle == [at |-> "none", heading |-> "none", hears |-> FALSE, told |-> FALSE,
         app |-> Nil]

Hearing == {"authenticating", "acting", "closing"}
Going == {"started"} \cup Hearing

TermTypeOK ==
  /\ FileTypeOK
  /\ app \in [Apps -> [life : {"down", "up", "quitting"}, stack : Seq(Screens),
                       left : SUBSET (Commands \cup {Nil}), rushed : BOOLEAN,
                       memory : Valid \cup {"none"},
                       saving : Texts \cup {"none", "written"}]]
  /\ worker \in [Runs -> [at : Going \cup {"none", "done", "cut"},
                          heading : {"none", "Progress", "Completed", "Stopped"},
                          hears : BOOLEAN, told : BOOLEAN, app : Apps \cup {Nil}]]
  /\ settings \in Contents
  /\ saves \in 0..MaxSaves
  /\ lateKeys \in 0..MaxLate

TermInit ==
  /\ FileInit
  /\ app = [p \in Apps |-> Down]
  /\ worker = [r \in Runs |-> Idle]
  /\ settings \in {"none", "keyed"}
  /\ saves = 0
  /\ lateKeys = 0

Acts(r) == worker[r].at = "acting"
Of(p) == {r \in Runs : worker[r].app = p}
Suspended(p) ==
  app[p].saving = "none" /\ \A r \in Of(p) : Acts(r) => run[r].place = "batch"
Free(p) == app[p].life = "up" /\ Suspended(p)

Depth(p) == Len(app[p].stack)
Shows(p, i, kind) == i \in 1..Depth(p) /\ app[p].stack[i].kind = kind
Sees(p, kind) == Shows(p, Depth(p), kind)
Sub(s, n) == SubSeq(s, 1, Len(s) - n)

-----------------------------------------------------------------------------
(* A process ends, in whichever way, and everything that goes on in it.    *)
Ends(p) ==
  /\ app' = [app EXCEPT ![p] = Down]
  /\ worker' = [r \in Runs |-> IF worker[r].app = p THEN Idle ELSE worker[r]]
  /\ Kill({r \in Of(p) : run[r].place \notin Over})

(* A worker is cancelled at its await: before it began it never does, in   *)
(* the action or the sign-in it goes on to close its session, and while it *)
(* does that nothing follows.  One that is done matters to a late key only.*)
Stopped(w) ==
  IF w.at \notin Going THEN IF w.at = "done" /\ lateKeys = MaxLate THEN Idle ELSE w
  ELSE [w EXCEPT !.told = TRUE,
          !.at = IF @ \in {"started", "closing"} THEN "cut"
                 ELSE IF @ = "authenticating" THEN "closing" ELSE @]

Stop(R) ==
  /\ worker' = [r \in Runs |-> IF r \in R THEN Stopped(worker[r]) ELSE worker[r]]
  /\ Cancelled({r \in R : Acts(r)})

(* A key is handled by the screen it went to, or late.                     *)
Key(p, late) ==
  /\ Free(p)
  /\ late => lateKeys < MaxLate
  /\ lateKeys' = IF late THEN lateKeys + 1 ELSE lateKeys

Push(p, late, screen) ==
  app' = [app EXCEPT ![p].stack = Append(@, screen), ![p].rushed = @ \/ late]

(* The n screens on top are removed, whatever they are, and the workers of *)
(* those that execute something are cancelled.  Removing more than there   *)
(* are is an error that ends the process.                                  *)
RemovedScreens(p, n) ==
  {app[p].stack[i] : i \in {j \in 1..Depth(p) : j > Depth(p) - n}}
Kept(p, n) ==
  IF lateKeys < MaxLate
    THEN app[p].left \cup {s.of : s \in {t \in RemovedScreens(p, n) :
                                           t.kind \in {"param", "settings"}}}
    ELSE {}

Pop(p, late, n) ==
  \/ /\ n <= Depth(p)
     /\ app' = [app EXCEPT ![p].stack = Sub(@, n), ![p].left = Kept(p, n),
                           ![p].rushed = @ \/ late]
     /\ Stop({r \in Runs : Execution(r) \in RemovedScreens(p, n)})
  \/ n > Depth(p) /\ Ends(p)

-----------------------------------------------------------------------------
(* A process starts and loads the settings: without a file it writes an    *)
(* example and ends, and it ends on a file it cannot use.                  *)
Start(p) ==
  /\ app[p].life = "down"
  /\ \/ /\ settings = "none"
        /\ settings' = "unkeyed"
        /\ UNCHANGED app
     \/ /\ settings \in Valid
        /\ app' = [app EXCEPT ![p] = [Down EXCEPT !.life = "up", !.stack = <<Menu>>,
                                                !.memory = settings]]
        /\ UNCHANGED settings
  /\ UNCHANGED <<worker, saves, lateKeys, fileVars>>

(* The keys of the screens: an action is selected in the menu, its         *)
(* questions are answered one by one, with Escape back to the one before,  *)
(* and after the last answer a screen executes it.                         *)
Waiting(r) == run[r].place = "none" /\ worker[r] = Idle

(* Bound: the last run that is left is for questions that are open already.*)
Reserved(r) ==
  /\ \A s \in Runs \ {r} : ~Waiting(s)
  /\ \E q \in Apps : \E i \in 1..Depth(q) : Shows(q, i, "param")

Select(p) ==
  LET late == ~Sees(p, "entry")
  IN  /\ Key(p, late)
      /\ \E r \in Runs :
           /\ Waiting(r) /\ ~Reserved(r)
           /\ Push(p, late, Question(run[r].command, 1))
      /\ UNCHANGED <<worker, ownVars, fileVars>>

Execute(p, late, c) ==
  /\ \E r \in Runs :
       /\ run[r].command = c /\ Waiting(r)
       /\ Push(p, late, Execution(r))
       /\ worker' = [worker EXCEPT ![r] = [Idle EXCEPT !.at = "started",
                                                      !.heading = "Progress",
                                                      !.app = p]]
  /\ UNCHANGED <<ownVars, fileVars>>

Confirm(p, i) ==
  LET late == i # Depth(p)
      c == app[p].stack[i].of
  IN  /\ Shows(p, i, "param") /\ Key(p, late)
      /\ \/ /\ app[p].stack[i].step < Steps[c]
            /\ app' = [app EXCEPT ![p].stack[i].step = @ + 1,
                                  ![p].rushed = @ \/ late]
            /\ UNCHANGED <<worker, ownVars, fileVars>>
         \/ app[p].stack[i].step = Steps[c] /\ Execute(p, late, c)

ConfirmLeft(p) ==
  Key(p, TRUE) /\ \E c \in app[p].left \cap Commands : Execute(p, TRUE, c)

Back(p, i) ==
  LET late == i # Depth(p)
  IN  /\ Shows(p, i, "param") /\ Key(p, late)
      /\ \/ /\ app[p].stack[i].step > 1
            /\ app' = [app EXCEPT ![p].stack[i].step = @ - 1,
                                  ![p].rushed = @ \/ late]
            /\ UNCHANGED <<worker, fileVars>>
         \/ app[p].stack[i].step = 1 /\ Pop(p, late, 1)
      /\ UNCHANGED ownVars

BackLeft(p) ==
  app[p].left # {} /\ Key(p, TRUE) /\ Pop(p, TRUE, 1) /\ UNCHANGED ownVars

(* Mutant: a key returns to the menu while the worker is going.            *)
FinishedAny(r) == worker[r].at # "none"
Finished(r) == worker[r].at = "done"

Return(p, r) ==
  LET late == ~(Depth(p) > 0 /\ app[p].stack[Depth(p)] = Execution(r))
  IN  /\ worker[r].app = p /\ Finished(r) /\ Key(p, late)
      /\ Pop(p, late, 2)
      /\ UNCHANGED ownVars

-----------------------------------------------------------------------------
(* The settings, on top of any other screen.  Saving truncates the file,   *)
(* writes it and loads it again; what does not load leaves the settings of *)
(* the process as they are, or ends it when it is no TOML.                 *)
OpenSettings(p) ==
  /\ ~Sees(p, "settings") /\ Key(p, FALSE)
  /\ Push(p, FALSE, Settings)
  /\ UNCHANGED <<worker, ownVars, fileVars>>

CloseSettings(p, i) ==
  /\ Shows(p, i, "settings") /\ Key(p, i # Depth(p))
  /\ Pop(p, i # Depth(p), 1)
  /\ UNCHANGED ownVars

Save(p) ==
  /\ Free(p) /\ Sees(p, "settings") /\ saves < MaxSaves
  /\ saves' = saves + 1
  /\ settings' = "torn"
  /\ \E t \in Texts : app' = [app EXCEPT ![p].saving = t]
  /\ UNCHANGED <<worker, lateKeys, fileVars>>

Saved(p) ==
  /\ app[p].saving \in Texts
  /\ settings' = app[p].saving
  /\ app' = [app EXCEPT ![p].saving = "written"]
  /\ UNCHANGED <<worker, saves, lateKeys, fileVars>>

Reloaded(p) ==
  /\ app[p].saving = "written"
  /\ \/ /\ settings # "broken"
        /\ app' = [app EXCEPT ![p].saving = "none",
                     ![p].memory = IF settings \in Valid THEN settings ELSE @]
        /\ UNCHANGED <<worker, fileVars>>
     \/ settings = "broken" /\ Ends(p)
  /\ UNCHANGED <<ownVars, lateKeys>>

-----------------------------------------------------------------------------
(* The worker: it hears the log, builds a session from the settings, signs *)
(* in, executes the action and says how that ended, unless it was          *)
(* cancelled.                                                              *)
Becomes(r, at, heading) ==
  /\ worker' = [worker EXCEPT ![r].at = at,
                  ![r].heading = IF worker[r].told THEN @ ELSE heading,
                  ![r].hears = at \in Hearing]
  /\ UNCHANGED <<app, ownVars, lateKeys>>

Configured(r) ==
  /\ worker[r].at = "started" /\ Suspended(worker[r].app)
  /\ IF app[worker[r].app].memory = "keyed"
       THEN Becomes(r, "authenticating", "Progress")
       ELSE Becomes(r, "done", "Stopped")
  /\ UNCHANGED fileVars

Authenticated(r) ==
  /\ worker[r].at = "authenticating" /\ Suspended(worker[r].app)
  /\ Becomes(r, "acting", "Progress")
  /\ Begin(r)

AuthenticationFails(r) ==
  /\ worker[r].at = "authenticating" /\ Suspended(worker[r].app)
  /\ Becomes(r, "closing", "Stopped")
  /\ UNCHANGED fileVars

ActionStep(r) ==
  /\ Acts(r) /\ app[worker[r].app].saving = "none"
  /\ \A s \in Of(worker[r].app) \ {r} : Acts(s) => run[s].place = "batch"
  /\ RunStep(r)
  /\ UNCHANGED <<app, worker, ownVars, lateKeys>>

ActionReturned(r) ==
  /\ Acts(r) /\ run[r].place = "returned"
  /\ Becomes(r, "closing", "Completed")
  /\ UNCHANGED fileVars

(* Mutant: the heading is the same however the action ended.               *)
RaisedAlike(r) ==
  /\ Acts(r) /\ run[r].place = "raised"
  /\ Becomes(r, "closing", "Completed")
  /\ UNCHANGED fileVars

ActionRaised(r) ==
  /\ Acts(r) /\ run[r].place = "raised"
  /\ Becomes(r, "closing", "Stopped")
  /\ UNCHANGED fileVars

(* The session is closed and the handlers go; an error in closing ends the *)
(* process, as one of a worker does.                                       *)
Closed(r) ==
  /\ worker[r].at = "closing" /\ Suspended(worker[r].app)
  /\ \/ Becomes(r, "done", worker[r].heading) /\ UNCHANGED fileVars
     \/ Ends(worker[r].app) /\ UNCHANGED <<ownVars, lateKeys>>

-----------------------------------------------------------------------------
(* Ctrl+C: the screens go, the workers are cancelled, and the process ends *)
(* when that is over.                                                      *)
Quit(p) ==
  /\ Free(p)
  /\ app' = [app EXCEPT ![p].life = "quitting", ![p].stack = <<>>]
  /\ Stop(Of(p))
  /\ UNCHANGED <<ownVars, lateKeys>>

Gone(p) ==
  /\ app[p].life = "quitting" /\ \A r \in Of(p) : worker[r].at \notin Going
  /\ Ends(p)
  /\ UNCHANGED <<ownVars, lateKeys>>

Dies(p) ==
  /\ app[p].life # "down"
  /\ Ends(p)
  /\ UNCHANGED <<ownVars, lateKeys>>

PowerFails ==
  /\ PowerLoss
  /\ app' = [p \in Apps |-> Down]
  /\ worker' = [r \in Runs |-> Idle]
  /\ UNCHANGED <<ownVars, lateKeys>>

Written ==
  /\ \E c \in Commands : Commit(c)
  /\ UNCHANGED <<app, worker, ownVars, lateKeys>>

ScreenStep(p) ==
  \/ Select(p) \/ ConfirmLeft(p) \/ BackLeft(p)
  \/ \E i \in 1..Depth(p) : Confirm(p, i) \/ Back(p, i) \/ CloseSettings(p, i)
  \/ \E r \in Runs : Return(p, r)
  \/ OpenSettings(p)

AppStep(p) ==
  \/ ScreenStep(p) \/ Start(p) \/ Save(p) \/ Saved(p) \/ Reloaded(p)
  \/ Quit(p) \/ Gone(p) \/ Dies(p)

WorkerStep(r) ==
  \/ Configured(r) \/ Authenticated(r) \/ AuthenticationFails(r)
  \/ ActionStep(r) \/ ActionReturned(r) \/ ActionRaised(r) \/ Closed(r)

TermNext ==
  \/ \E p \in Apps : AppStep(p)
  \/ \E r \in Runs : WorkerStep(r)
  \/ PowerFails \/ Written

TermSpec == TermInit /\ [][TermNext]_termVars

-----------------------------------------------------------------------------
(* What the screen says of an action is what it did: Completed only when   *)
(* its complete result is in the file, or another run replaced that since, *)
(* and Stopped only when the action raised or never began; and every       *)
(* action that is over says so, unless its worker was cancelled.           *)
ShownOutcomeIsTrue ==
  \A r \in Runs :
    /\ worker[r].heading = "Completed" =>
         /\ run[r].place = "returned"
         /\ r \in superseded \/ visible[run[r].command] = Result(r, 1..run[r].total)
    /\ worker[r].heading = "Stopped" => run[r].place \in {"none", "raised"}
    /\ Finished(r) /\ ~worker[r].told => worker[r].heading \in {"Completed", "Stopped"}

(* The screens and the workers belong together.  Whatever keys are pressed,*)
(* and however late each of them is handled: an action that is executed    *)
(* has a worker, a worker that was not cancelled has its screen in its     *)
(* process, just one, and a cancelled one none; and a worker hears the log *)
(* from its sign-in to its end, only one that was cut short may go on.     *)
Executing(p, i, r) == i \in 1..Depth(p) /\ app[p].stack[i] = Execution(r)

WorkersHaveScreens ==
  \A r \in Runs :
    /\ run[r].place \notin Over => Acts(r)
    /\ worker[r].at \in Going /\ ~worker[r].told =>
         \E i \in 1..Depth(worker[r].app) : Executing(worker[r].app, i, r)
    /\ \A p \in Apps : \A i, j \in 1..Depth(p) :
         Executing(p, i, r) =>
           /\ worker[r].app = p /\ worker[r].at # "none" /\ ~worker[r].told
           /\ Executing(p, j, r) => i = j

LogIsHeard ==
  \A r \in Runs :
    /\ worker[r].at \in Hearing => worker[r].hears
    /\ worker[r].hears => worker[r].at \in Hearing \/ (worker[r].at = "cut" /\ worker[r].told)

(* When no key was handled late, an execution screen lies on the last      *)
(* question of its command and that on the menu, so that leaving it shows  *)
(* the menu, and nothing else goes on in its process.                      *)
Underneath(s) == IF s # <<>> /\ s[Len(s)] = Settings THEN Sub(s, 1) ELSE s

Orderly(p) ==
  LET s == Underneath(app[p].stack)
  IN  /\ \/ s = <<Menu>>
         \/ \E c \in Commands : \E k \in 1..Steps[c] : s = <<Menu, Question(c, k)>>
         \/ \E r \in Runs :
              LET c == run[r].command
              IN  s = <<Menu, Question(c, Steps[c]), Execution(r)>>
      /\ \A r \in Of(p) : worker[r].at \in Going => s[Len(s)] = Execution(r)

ScreensFollowWorker ==
  /\ WorkersHaveScreens
  /\ LogIsHeard
  /\ \A p \in Apps : app[p].life = "up" /\ ~app[p].rushed => Orderly(p)

=============================================================================
