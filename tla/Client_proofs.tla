----------------------------- MODULE Client_proofs -----------------------------
(***************************************************************************)
(* Proofs about what goes on at the machine of the user: ResultFiles and   *)
(* Terminal, HttpLog, and OAuthCallback.                                   *)
(***************************************************************************)
EXTENDS Terminal, HttpLog, OAuthCallback, SequenceTheorems, TLAPS

(***************************************************************************)
(* OAuthCallback.  Whatever wakes the loop was noted before: a code that   *)
(* counts, or an error.                                                    *)
(***************************************************************************)
NotedFirst ==
  /\ received \/ wakes => callback.error \/ callback.code \in Codes
  /\ server.thread = "answering" /\ server.request.kind \in Own =>
       callback.error \/ callback.code \in Codes
  /\ server.request.kind = "code" => server.request.code \in Codes
  /\ login.outcome \in {"code", "tokens"} => callback.code \in Codes

(* The browser and the server live inside the call.                        *)
Inside ==
  /\ login.place \in {"new", "opening", "stopping", "exchanging", "over"} => ~browser
  /\ login.place \in {"new", "exchanging", "over"} => server.thread = "none"
  /\ login.place = "exchanging" => login.outcome = "code"

LEMMA LoginTypes == LoginSpec => []LoginTypeOK
<1>1. LoginInit => LoginTypeOK
  <2> SUFFICES ASSUME LoginInit PROVE LoginTypeOK
    OBVIOUS
  <2>1. browser \in BOOLEAN /\ wakes \in BOOLEAN /\ received \in BOOLEAN
    BY Zenon DEF LoginInit
  <2>2. callback \in [code : Codes \cup {NoCode}, error : BOOLEAN]
    BY DEF LoginInit
  <2>3. /\ server.thread = "none" /\ server.request = Nothing
        /\ server = [thread |-> server.thread, request |-> server.request]
    BY DEF LoginInit
  <2> QED
    BY <2>1, <2>2, <2>3, CallbacksAssumption DEF LoginInit, LoginTypeOK, Outcomes
<1>2. ASSUME LoginTypeOK, [LoginNext]_loginVars PROVE LoginTypeOK'
  <2> USE <1>2 DEF LoginTypeOK
  <2>0. CASE UNCHANGED loginVars
    BY <2>0 DEF loginVars
  <2>1. CASE Serve
    BY <2>1 DEF Serve, Moves, Outcomes
  <2>2. CASE OpenBrowser
    <3>1. browser' \in BOOLEAN
      BY <2>2, Zenon DEF OpenBrowser
    <3>2. login' \in [place : {"waiting", "closing"}, outcome : Outcomes]
      BY <2>2 DEF OpenBrowser, Moves, Outcomes
    <3> QED BY <2>2, <3>1, <3>2 DEF OpenBrowser
  <2>3. CASE WaitEnds \/ TimesOut \/ CancelLogin \/ Exchange
    <3>1. login' \in [place : {"closing", "over"}, outcome : Outcomes]
      BY <2>3 DEF WaitEnds, TimesOut, CancelLogin, Exchange, Moves, Outcomes
    <3>2. OnlyLogin
      BY <2>3 DEF WaitEnds, TimesOut, CancelLogin, Exchange
    <3> QED BY <3>1, <3>2 DEF OnlyLogin
  <2>4. CASE CloseBrowser
    BY <2>4 DEF CloseBrowser, Moves
  <2>5. CASE StopServer
    BY <2>5 DEF StopServer, Moves
  <2>6. CASE Arrive
    BY <2>6, CallbacksAssumption DEF Arrive
  <2>7. CASE Note
    <3>1. callback' \in [code : Codes \cup {NoCode}, error : BOOLEAN]
      <4>1. server.request.kind = "code" => server.request.code \in Codes \cup {NoCode}
        BY DEF Requests, Nothing
      <4> QED BY <2>7, <4>1 DEF Note, Noted
    <3> QED BY <2>7, <3>1 DEF Note
  <2>8. CASE Answer
    BY <2>8 DEF Answer
  <2>9. CASE Wake
    BY <2>9 DEF Wake
  <2> QED BY <2>0, <2>1, <2>2, <2>3, <2>4, <2>5, <2>6, <2>7, <2>8, <2>9
          DEF LoginNext
<1> QED BY <1>1, <1>2, PTL DEF LoginSpec

(* A code is exchanged only when one came with the own state, and neither  *)
(* the browser nor the server outlives the call.                           *)
THEOREM LoginsAreSettled == LoginSpec => []LoginIsSettled
<1>1. LoginInit => NotedFirst /\ Inside
  BY DEF LoginInit, NotedFirst, Inside, Nothing
<1>2. ASSUME LoginTypeOK, NotedFirst, Inside, [LoginNext]_loginVars
      PROVE  NotedFirst' /\ Inside'
  <2> USE <1>2 DEF NotedFirst, Inside
  <2>0. CASE UNCHANGED loginVars
    BY <2>0 DEF loginVars
  <2>1. CASE Serve
    BY <2>1 DEF Serve, Moves, LoginTypeOK
  <2>2. CASE OpenBrowser
    BY <2>2 DEF OpenBrowser, Moves
  <2>3. CASE WaitEnds \/ TimesOut \/ CancelLogin \/ Exchange
    <3>1. OnlyLogin
      BY <2>3 DEF WaitEnds, TimesOut, CancelLogin, Exchange
    <3>2. CASE WaitEnds
      BY <3>1, <3>2 DEF WaitEnds, OnlyLogin, Moves
    <3>3. CASE TimesOut
      BY <3>1, <3>3 DEF TimesOut, OnlyLogin, Moves
    <3>4. CASE CancelLogin
      BY <3>1, <3>4 DEF CancelLogin, OnlyLogin, Moves
    <3>5. CASE Exchange
      BY <3>1, <3>5 DEF Exchange, OnlyLogin, Moves
    <3> QED BY <2>3, <3>2, <3>3, <3>4, <3>5
  <2>4. CASE CloseBrowser
    BY <2>4 DEF CloseBrowser, Moves
  <2>5. CASE StopServer
    BY <2>5 DEF StopServer, Moves, LoginTypeOK
  <2>6. CASE Arrive
    <3>1. PICK r \in Requests : server' = [thread |-> "reading", request |-> r]
      BY <2>6 DEF Arrive
    <3>2. r.kind = "code" => r.code \in Codes
      BY DEF Requests
    <3> QED BY <2>6, <3>1, <3>2 DEF Arrive
  <2>7. CASE Note
    <3>1. /\ server.request.kind \in Own =>
               callback'.error \/ callback'.code \in Codes
          /\ callback.error => callback'.error
          /\ callback.code \in Codes => callback'.code \in Codes
      BY <2>7 DEF Note, Noted, LoginTypeOK, Own
    <3> QED BY <2>7, <3>1 DEF Note, LoginTypeOK
  <2>8. CASE Answer
    BY <2>8 DEF Answer, LoginTypeOK, Nothing
  <2>9. CASE Wake
    BY <2>9 DEF Wake
  <2> QED BY <2>0, <2>1, <2>2, <2>3, <2>4, <2>5, <2>6, <2>7, <2>8, <2>9
          DEF LoginNext
<1>3. NotedFirst /\ Inside => LoginIsSettled
  BY DEF NotedFirst, Inside, LoginIsSettled
<1> QED BY <1>1, <1>2, <1>3, LoginTypes, PTL DEF LoginSpec

(***************************************************************************)
(* ResultFiles.  One step moves one run, commits a name, or is a power     *)
(* loss; only Replace and PowerLoss change what a reader finds.            *)
(***************************************************************************)
Step(r) == Begin(r) \/ RunStep(r)
Stops == \E R \in SUBSET Runs : Cancelled(R) \/ Kill(R)

RunTypes ==
  [command : Commands, total : Counts,
   place : Over \cup Writing \cup {"reading", "batch", "logging", "summary"},
   temp : {"none", "open", "synced"}, done : SUBSET Items, item : Nat,
   logged : SUBSET Items, failing : BOOLEAN]

Places == Over \cup Writing \cup {"reading", "batch", "logging", "summary"}

LEMMA CountsAreSmaller ==
  /\ 0 \in Nat /\ Counts \subseteq Nat /\ Items \subseteq Nat
  /\ \A c \in Commands : 0..MaxItems[c] \subseteq Counts
  /\ \A n \in Counts : 1..n \subseteq Items
<1>1. \A c \in Commands : MaxItems[c] \in Nat
  BY ItemsAssumption
<1>2. \A c \in Commands : 0..MaxItems[c] \subseteq Counts
  BY DEF Counts
<1>3. Counts \subseteq Nat
  BY <1>1 DEF Counts
<1>4. ASSUME NEW n \in Counts PROVE 1..n \subseteq Items
  <2>1. PICK c \in Commands : n \in 0..MaxItems[c]
    BY DEF Counts
  <2>2. \A i \in 1..n : i \in 0..MaxItems[c] /\ i # 0
    BY <2>1, <1>1
  <2> QED BY <2>2, <1>2 DEF Items
<1> QED BY <1>2, <1>3, <1>4 DEF Items

(* What is known of a run by itself: what it was at when it came where it  *)
(* is.                                                                     *)
Sound(x) ==
  /\ x.place \in {"none", "template"} => x.logged = {}
  /\ x.place \in {"checkpoint", "logging"} =>
       x.command \in Checkpointing /\ x.item \in x.done
  /\ x.place \in {"final", "summary", "returned"} => x.done = 1..x.total
  /\ x.logged \subseteq x.done
  /\ x.temp # "none" => x.place \in Writing

(* How a run changes, the writing of a document aside: what is done stays  *)
(* done, a run is done with only once, and what becomes logged was written.*)
Settled == {"summary", "returned", "killed"}

Moved(x, y) ==
  /\ y.command = x.command /\ x.done \subseteq y.done
  /\ x.place \in Settled => y.place \in Settled /\ y.total = x.total
  /\ y.place = "returned" => x.place \in {"summary", "returned"}

Quiet(x, y) ==
  /\ y.place = "summary" => x.place = "summary"
  /\ y.place = "logging" => x.place = "logging" /\ y.item = x.item
  /\ \/ y.logged = x.logged
     \/ x.place = "logging" /\ y.logged = x.logged \cup {x.item}

LEMMA StepMoves ==
  ASSUME FileTypeOK, NEW r \in Runs, Sound(run[r]), Step(r)
  PROVE  /\ \A s \in Runs \ {r} : run'[s] = run[s]
         /\ run' \in [Runs -> RunTypes]
         /\ Sound(run'[r]) /\ Moved(run[r], run'[r])
         /\ Replace(r) \/ (UnchangedFiles /\ Quiet(run[r], run'[r]))
<1> DEFINE x == run[r]
           Changes(y) ==
             /\ run' = [run EXCEPT ![r] = y]
             /\ y \in RunTypes /\ Sound(y) /\ Moved(x, y)
             /\ Quiet(x, y)
<1>1. run \in [Runs -> RunTypes] /\ x \in RunTypes
  BY DEF FileTypeOK, RunTypes
<1>2. ASSUME NEW y, Changes(y), UnchangedFiles
      PROVE  /\ \A s \in Runs \ {r} : run'[s] = run[s]
             /\ run' \in [Runs -> RunTypes]
             /\ Sound(run'[r]) /\ Moved(run[r], run'[r])
             /\ UnchangedFiles /\ Quiet(run[r], run'[r])
  BY <1>1, <1>2
<1>3. ASSUME NEW place \in Places, Goes(r, place),
             x.place \notin Settled \/ (x.place = "summary" /\ place = "returned"),
             x.place \notin Writing,
             place \notin {"none", "summary", "logging", "checkpoint"},
             place = "template" => x.place = "none",
             place = "returned" => x.place = "summary",
             place = "final" => x.done = 1..x.total
      PROVE  Changes([x EXCEPT !.place = place])
  BY <1>1, <1>3 DEF Goes, RunTypes, Places, Sound, Moved, Quiet, Settled
<1>4. CASE Begin(r)
  <2>1. PICK place \in {"template", "batch", "reading"} : Goes(r, place)
    BY <1>4 DEF Begin, Reads
  <2> QED BY <1>2, <1>3, <1>4, <2>1 DEF Begin, Places, Writing, Settled
<1>5. CASE ReadTasks(r)
  <2>1. CASE Goes(r, "raised")
    BY <1>2, <1>3, <1>5, <2>1 DEF ReadTasks, Places, Over, Settled, Writing
  <2>2. ASSUME NEW n \in 0..MaxItems[x.command],
               run' = [run EXCEPT ![r].place = "batch", ![r].total = n]
        PROVE  Changes([x EXCEPT !.place = "batch", !.total = n])
    <3>1. n \in Counts
      BY <1>1, CountsAreSmaller DEF RunTypes
    <3> QED BY <1>1, <1>5, <2>2, <3>1 DEF ReadTasks, RunTypes, Sound, Moved, Quiet, Settled, Writing
  <2> QED BY <1>2, <1>5, <2>1, <2>2 DEF ReadTasks
<1>6. CASE Discovered(r)
  <2>1. PICK n \in 1..MaxItems[x.command] : run' = [run EXCEPT ![r].total = n]
    BY <1>6 DEF Discovered
  <2>2. n \in Counts
    <3>1. MaxItems[x.command] \in Nat /\ x.command \in Commands
      BY <1>1, ItemsAssumption DEF RunTypes
    <3> QED BY <2>1, <3>1, CountsAreSmaller
  <2>3. Changes([x EXCEPT !.total = n])
    BY <1>1, <1>6, <2>1, <2>2
       DEF Discovered, RunTypes, Sound, Moved, Quiet, Settled, Writing
  <2> QED BY <1>2, <1>6, <2>3 DEF Discovered
<1>7. CASE Open(r)
  <2>1. Changes([x EXCEPT !.temp = "open"])
    BY <1>1, <1>7 DEF Open, RunTypes, Sound, Moved, Quiet
  <2> QED BY <1>2, <1>7, <2>1 DEF Open
<1>8. CASE Synchronise(r)
  <2>1. Changes([x EXCEPT !.temp = "synced"])
    BY <1>1, <1>8 DEF Synchronise, RunTypes, Sound, Moved, Quiet
  <2> QED BY <1>2, <1>8, <2>1 DEF Synchronise
<1>9. CASE Replace(r)
  <2>1. Afterwards(r) \in Places
    BY DEF Afterwards, Reads, Places
  <2>2. x.place \in Writing
    BY <1>9 DEF Replace, Sound
  <2>3. [x EXCEPT !.place = Afterwards(r), !.temp = "none"] \in RunTypes
    BY <1>1, <2>1 DEF RunTypes, Places
  <2>4. run' = [run EXCEPT ![r] = [x EXCEPT !.place = Afterwards(r), !.temp = "none"]]
    BY <1>1, <1>9 DEF Replace
  <2>5. Sound(run'[r]) /\ Moved(x, run'[r])
    BY <1>1, <2>2, <2>4
       DEF Afterwards, Reads, RunTypes, Sound, Moved, Settled, Writing
  <2> QED BY <1>1, <1>9, <2>3, <2>4, <2>5
<1>10. CASE WriteFails(r)
  <2> DEFINE to == IF x.place = "checkpoint" THEN "batch" ELSE "raised"
             fails == x.failing \/ x.place = "checkpoint"
  <2>1. to \in Places /\ fails \in BOOLEAN
    BY DEF Places, Over
  <2>2. Changes([x EXCEPT !.temp = "none", !.place = to, !.failing = fails])
    BY <1>1, <1>10, <2>1
       DEF WriteFails, RunTypes, Places, Writing, Sound, Moved, Quiet, Settled
  <2> QED BY <1>2, <1>10, <2>2 DEF WriteFails
<1>11. CASE ItemDone(r)
  <2>1. PICK i \in 1..x.total \ x.done :
          run' = [run EXCEPT ![r].done = @ \cup {i}, ![r].item = i,
                    ![r].place = IF x.command \in Checkpointing
                                   THEN "checkpoint" ELSE "batch"]
    BY <1>11 DEF ItemDone
  <2>2. i \in Items /\ i \in Nat
    BY <1>1, CountsAreSmaller DEF RunTypes
  <2>3. Changes([x EXCEPT !.done = @ \cup {i}, !.item = i,
                   !.place = IF x.command \in Checkpointing
                               THEN "checkpoint" ELSE "batch"])
    BY <1>1, <1>11, <2>1, <2>2
       DEF ItemDone, RunTypes, Writing, Sound, Moved, Quiet, Settled
  <2> QED BY <1>2, <1>11, <2>3 DEF ItemDone
<1>12. CASE Logged(r)
  <2>1. x.item \in x.done /\ x.done \in SUBSET Items
    BY <1>1, <1>12 DEF Logged, Sound, RunTypes
  <2>2. Changes([x EXCEPT !.logged = @ \cup {x.item}, !.place = "batch"])
    BY <1>1, <1>12, <2>1 DEF Logged, RunTypes, Sound, Moved, Quiet, Settled, Writing
  <2> QED BY <1>2, <1>12, <2>2 DEF Logged
<1>13. CASE BatchReturns(r)
  BY <1>2, <1>3, <1>13 DEF BatchReturns, Places, Writing, Settled
<1>14. CASE BatchRaises(r)
  BY <1>2, <1>3, <1>14 DEF BatchRaises, Places, Over, Settled, Writing
<1>15. CASE Summarised(r)
  BY <1>2, <1>3, <1>15 DEF Summarised, Places, Over, Settled, Writing
<1> QED
  BY <1>4, <1>5, <1>6, <1>7, <1>8, <1>9, <1>10, <1>11, <1>12, <1>13, <1>14, <1>15
     DEF Step, RunStep

(* Runs that are cancelled or killed only change what they are at.         *)
LEMMA StopMoves ==
  ASSUME FileTypeOK, \A r \in Runs : Sound(run[r]), Stops
  PROVE  /\ UnchangedFiles
         /\ run' \in [Runs -> RunTypes]
         /\ \A r \in Runs : /\ Sound(run'[r]) /\ Moved(run[r], run'[r])
                            /\ Quiet(run[r], run'[r])
<1>1. run \in [Runs -> RunTypes]
  BY DEF FileTypeOK, RunTypes
<1>2. \A r \in Runs : run[r] \in RunTypes
  BY <1>1
<1>3. PICK R \in SUBSET Runs : Cancelled(R) \/ Kill(R)
  BY DEF Stops
<1>4. CASE Cancelled(R)
  <2>1. ASSUME NEW x \in RunTypes, Sound(x)
        PROVE  LET y == [x EXCEPT !.failing = TRUE]
               IN  y \in RunTypes /\ Sound(y) /\ Moved(x, y) /\ Quiet(x, y)
    BY <2>1 DEF RunTypes, Sound, Moved, Quiet
  <2>2. \A x \in RunTypes : Moved(x, x) /\ Quiet(x, x)
    BY DEF Moved, Quiet
  <2>3. run' = [r \in Runs |-> IF r \in R THEN [run[r] EXCEPT !.failing = TRUE]
                                          ELSE run[r]]
    BY <1>4 DEF Cancelled
  <2> QED BY <1>2, <1>4, <2>1, <2>2, <2>3 DEF Cancelled
<1>5. CASE Kill(R)
  <2>1. ASSUME NEW x \in RunTypes, Sound(x), x.place \notin Over
        PROVE  /\ Killed(x) \in RunTypes /\ Sound(Killed(x))
               /\ Moved(x, Killed(x)) /\ Quiet(x, Killed(x))
    BY <2>1 DEF Killed, RunTypes, Over, Sound, Moved, Quiet, Settled
  <2>2. \A x \in RunTypes : Moved(x, x) /\ Quiet(x, x)
    BY DEF Moved, Quiet
  <2>3. run' = [r \in Runs |-> IF r \in R THEN Killed(run[r]) ELSE run[r]]
    BY <1>5 DEF Kill
  <2> QED BY <1>2, <1>5, <2>1, <2>2, <2>3 DEF Kill
<1> QED BY <1>3, <1>4, <1>5

(* What a replacement puts there: a whole document of its run.             *)
LEMMA Replaced ==
  ASSUME FileTypeOK, NEW r \in Runs, Sound(run[r]), Replace(r)
  PROVE  /\ Payload(r) \in Documents /\ Payload(r).synced = TRUE
         /\ visible' = [visible EXCEPT ![run[r].command] = Payload(r)]
         /\ run[r].command \in Commands /\ run[r].place \in Writing
<1>1. /\ run[r].command \in Commands /\ run[r].place \in Writing
      /\ run[r].done \subseteq Items /\ 1..run[r].total \subseteq Items
  BY CountsAreSmaller DEF FileTypeOK, Replace, Sound
<1>2. Payload(r) \in Documents /\ Payload(r).synced = TRUE
  BY <1>1 DEF Payload, Template, Result, Documents
<1>3. [Payload(r) EXCEPT !.synced = TRUE] = Payload(r)
  <2>1. \A d \in Documents : d.synced = TRUE => [d EXCEPT !.synced = TRUE] = d
    BY DEF Documents
  <2> QED BY <1>2, <2>1
<1>4. (run[r].temp = "synced") = TRUE
  BY DEF Replace
<1>5. visible' = [visible EXCEPT ![run[r].command] =
                     [Payload(r) EXCEPT !.synced = run[r].temp = "synced"]]
  BY DEF Replace, Renamed
<1>6. visible' = [visible EXCEPT ![run[r].command] = Payload(r)]
  BY <1>3, <1>4, <1>5
<1> QED BY <1>1, <1>2, <1>6

LEMMA FileSteps ==
  ASSUME FileNext
  PROVE  \/ (\E r \in Runs : Step(r)) \/ Stops
         \/ (\E c \in Commands : Commit(c)) \/ PowerLoss
BY DEF FileNext, Step, Stops

(* A power loss keeps what the runs knew, and ends them.                   *)
LEMMA PowerLossKills ==
  ASSUME FileTypeOK, PowerLoss, NEW r \in Runs, Sound(run[r])
  PROVE  /\ run' \in [Runs -> RunTypes]
         /\ Sound(run'[r]) /\ Moved(run[r], run'[r])
         /\ run'[r].place # "summary" /\ run'[r].place \in Over
<1>1. \A s \in Runs : run[s] \in RunTypes
  BY DEF FileTypeOK, RunTypes
<1>2. \A s \in Runs : run'[s] = IF run[s].place \in Over THEN run[s] ELSE Killed(run[s])
  BY DEF PowerLoss
<1>3. \A x \in RunTypes : Killed(x) \in RunTypes /\ Killed(x).place = "killed"
  BY DEF Killed, RunTypes, Over
<1>4. run' \in [Runs -> RunTypes]
  BY <1>1, <1>2, <1>3 DEF PowerLoss
<1>5. Sound(run'[r]) /\ Moved(run[r], run'[r])
  BY <1>1, <1>2 DEF Killed, Sound, Moved, Settled, Over, RunTypes
<1> QED BY <1>2, <1>3, <1>1, <1>4, <1>5 DEF Over

FileSound == FileTypeOK /\ \A r \in Runs : Sound(run[r])

LEMMA FileSoundKept ==
  ASSUME FileSound, [FileNext]_fileVars
  PROVE  FileSound'
<1> USE DEF FileSound
<1>0. CASE UNCHANGED fileVars
  BY <1>0 DEF fileVars, FileTypeOK, Sound
<1>1. ASSUME NEW r \in Runs, Step(r) PROVE FileSound'
  <2>1. /\ \A s \in Runs \ {r} : run'[s] = run[s]
        /\ run' \in [Runs -> RunTypes]
        /\ Sound(run'[r]) /\ (Replace(r) \/ UnchangedFiles)
    BY <1>1, StepMoves
  <2>2. \A s \in Runs : Sound(run'[s])
    BY <2>1
  <2>3. CASE UnchangedFiles
    BY <2>1, <2>2, <2>3 DEF UnchangedFiles, FileTypeOK, RunTypes
  <2>4. CASE Replace(r)
    <3>1. visible' \in [Commands -> Documents]
      BY <2>4, Replaced DEF FileTypeOK
    <3>2. superseded' \subseteq Runs /\ UNCHANGED <<durable, powerLosses>>
      BY <2>4 DEF Replace, Renamed, FileTypeOK
    <3> QED BY <2>1, <2>2, <3>1, <3>2 DEF FileTypeOK, RunTypes
  <2> QED BY <2>1, <2>3, <2>4
<1>2. ASSUME NEW c \in Commands, Commit(c) PROVE FileSound'
  BY <1>2 DEF Commit, FileTypeOK, Sound
<1>3. CASE PowerLoss
  <2>1. \A r \in Runs : run' \in [Runs -> RunTypes] /\ Sound(run'[r])
    BY <1>3, PowerLossKills
  <2>2. run' \in [Runs -> RunTypes]
    BY <1>3, <2>1 DEF PowerLoss
  <2> QED BY <1>3, <2>1, <2>2, PowerLossesAssumption
          DEF PowerLoss, FileTypeOK, RunTypes
<1>4. CASE Stops
  BY <1>4, StopMoves DEF UnchangedFiles, FileTypeOK, RunTypes
<1> QED BY <1>0, <1>1, <1>2, <1>3, <1>4, FileSteps

LEMMA FileSoundFirst ==
  ASSUME FileInit
  PROVE  FileSound
<1>1. PICK c \in [Runs -> Commands] : run = [r \in Runs |-> Fresh(c[r])]
  BY DEF FileInit
<1>2. 0 \in Counts \/ Commands = {}
  BY ItemsAssumption DEF Counts
<1>3. run \in [Runs -> RunTypes] /\ \A r \in Runs : Sound(run[r])
  BY <1>1, <1>2 DEF Fresh, RunTypes, Over, Sound
<1>4. Missing \in Documents
  BY DEF Missing, Documents
<1> QED BY <1>3, <1>4, PowerLossesAssumption
        DEF FileInit, FileSound, FileTypeOK, RunTypes

LEMMA RunsSound == FileSpec => []FileSound
BY FileSoundFirst, FileSoundKept, PTL DEF FileSpec

(* The variables of the files and the runs keep their types.               *)
THEOREM FilesTypeCorrect == FileSpec => []FileTypeOK
BY RunsSound, PTL DEF FileSound

(* Whatever a reader finds, also after a power loss, is whole.             *)
THEOREM FilesAreWhole == FileSpec => []FileIsWhole
<1>1. FileInit => FileIsWhole
  BY DEF FileInit, FileIsWhole, Missing
<1>2. FileSound /\ FileIsWhole /\ [FileNext]_fileVars => FileIsWhole'
  <2> SUFFICES ASSUME FileSound, FileIsWhole, [FileNext]_fileVars
               PROVE  FileIsWhole'
    OBVIOUS
  <2>0. CASE UNCHANGED fileVars
    BY <2>0 DEF fileVars, FileIsWhole
  <2>1. ASSUME NEW r \in Runs, Step(r) PROVE FileIsWhole'
    <3>1. CASE UnchangedFiles
      BY <3>1 DEF UnchangedFiles, FileIsWhole
    <3>2. CASE Replace(r)
      <4>1. /\ visible' = [visible EXCEPT ![run[r].command] = Payload(r)]
            /\ Payload(r).synced = TRUE /\ durable' = durable
        BY <3>2, Replaced DEF FileSound, Replace
      <4> QED BY <4>1 DEF FileIsWhole, FileSound, FileTypeOK
    <3> QED BY <2>1, <3>1, <3>2, StepMoves DEF FileSound
  <2>2. ASSUME NEW c \in Commands, Commit(c) PROVE FileIsWhole'
    BY <2>2 DEF Commit, FileIsWhole, FileSound, FileTypeOK
  <2>3. CASE PowerLoss
    BY <2>3 DEF PowerLoss, FileIsWhole
  <2>4. CASE Stops
    BY <2>4, StopMoves DEF FileSound, UnchangedFiles, FileIsWhole
  <2> QED BY <2>0, <2>1, <2>2, <2>3, <2>4, FileSteps
<1> QED BY <1>1, <1>2, RunsSound, PTL DEF FileSpec

-----------------------------------------------------------------------------
(* A document of a run shows what that run has done, and all of it unless  *)
(* its command checkpoints: then the run is done with.                     *)
Tells(c, d) ==
  IsResult(d) =>
    /\ d.run \in Runs /\ run[d.run].command = c
    /\ d.items \subseteq run[d.run].done
    /\ c \notin Checkpointing =>
         d.items = 1..run[d.run].total /\ run[d.run].place \in Settled

Shown == \A c \in Commands : Tells(c, visible[c]) /\ Tells(c, durable[c])

(* What a run left in its file is there until another run replaced it: at  *)
(* the end all of it, before that what it logged or is about to log.       *)
Left(r) ==
  r \in superseded \/ visible[run[r].command] = Result(r, 1..run[r].total)

Noticed(r) ==
  run[r].logged \cup (IF run[r].place = "logging" THEN {run[r].item} ELSE {})

InFile(r) ==
  /\ IsResult(visible[run[r].command]) /\ visible[run[r].command].run = r
  /\ Noticed(r) \subseteq visible[run[r].command].items

Held(r) ==
  /\ run[r].place = "summary" => Left(r)
  /\ powerLosses = 0 =>
       /\ run[r].place = "returned" => Left(r)
       /\ r \notin superseded /\ Noticed(r) # {} => InFile(r)

FileInv == Shown /\ \A r \in Runs : Held(r)

LEMMA ResultFields ==
  ASSUME NEW r, NEW items
  PROVE  /\ IsResult(Result(r, items)) /\ Result(r, items).run = r
         /\ Result(r, items).items = items
         /\ ~IsResult(Template) /\ ~IsResult(Missing)
BY DEF IsResult, Result, Template, Missing

(* A document stays true of its run when that moves.                       *)
LEMMA TellsStays ==
  ASSUME NEW c, NEW d, Tells(c, d),
         \A r \in Runs : Moved(run[r], run'[r])
  PROVE  (IsResult(d) =>
            /\ d.run \in Runs /\ run'[d.run].command = c
            /\ d.items \subseteq run'[d.run].done
            /\ c \notin Checkpointing =>
                 d.items = 1..run'[d.run].total /\ run'[d.run].place \in Settled)
BY DEF Tells, Moved

(* Another run's replacement leaves a run's document or supersedes it.     *)
LEMMA OtherReplaces ==
  ASSUME FileSound, NEW r \in Runs, Replace(r), NEW s \in Runs \ {r}
  PROVE  /\ s \in superseded => s \in superseded'
         /\ s \notin superseded' /\ IsResult(visible[run[s].command])
              /\ visible[run[s].command].run = s =>
              visible'[run[s].command] = visible[run[s].command]
<1>1. superseded' = (superseded \ {r}) \cup {t \in Runs \ {r} :
           IsResult(visible[run[r].command]) /\ visible[run[r].command].run = t}
      \/ superseded' = superseded \cup {t \in Runs \ {r} :
           IsResult(visible[run[r].command]) /\ visible[run[r].command].run = t}
  BY DEF Replace, Renamed
<1>2. /\ visible' = [visible EXCEPT ![run[r].command] = Payload(r)]
      /\ \A t \in Runs : run[t].command \in Commands
  BY Replaced DEF FileSound, FileTypeOK
<1> QED BY <1>1, <1>2 DEF FileSound, FileTypeOK

(* The run that replaces leaves everything it noticed, at the end all.     *)
LEMMA OwnReplaces ==
  ASSUME FileSound, NEW r \in Runs, Replace(r)
  PROVE  /\ run'[r].place \in {"summary", "returned"} => Left(r)'
         /\ Noticed(r)' # {} => InFile(r)'
         /\ IsResult(Payload(r)) =>
              /\ Payload(r).run = r /\ Payload(r).items \subseteq run'[r].done
              /\ run[r].command \notin Checkpointing =>
                   Payload(r).items = 1..run'[r].total /\ run'[r].place \in Settled
<1> DEFINE x == run[r]
<1>1. /\ visible' = [visible EXCEPT ![x.command] = Payload(r)]
      /\ x.command \in Commands /\ x.place \in Writing
  BY Replaced DEF FileSound
<1>2. /\ run'[r].place = Afterwards(r) /\ run'[r].command = x.command
      /\ run'[r].total = x.total /\ run'[r].done = x.done
      /\ run'[r].logged = x.logged /\ run'[r].item = x.item
  BY DEF Replace, FileSound, FileTypeOK
<1>3. visible'[run'[r].command] = Payload(r)
  BY <1>1, <1>2 DEF FileSound, FileTypeOK
<1>4. Sound(x)
  BY DEF FileSound
<1>5. CASE x.place = "template"
  <2>1. Payload(r) = Template /\ Afterwards(r) \in {"batch", "reading"}
    BY <1>5 DEF Payload, Afterwards, Reads
  <2>2. Noticed(r)' = {}
    BY <1>2, <1>4, <1>5, <2>1 DEF Noticed, Sound
  <2> QED BY <1>2, <2>1, <2>2, ResultFields
<1>6. CASE x.place = "checkpoint"
  <2>1. Payload(r) = Result(r, x.done) /\ Afterwards(r) = "logging"
    BY <1>6 DEF Payload, Afterwards
  <2>2. Noticed(r)' \subseteq x.done /\ x.command \in Checkpointing
    BY <1>2, <1>4, <1>6, <2>1 DEF Noticed, Sound
  <2> QED BY <1>2, <1>3, <2>1, <2>2, ResultFields DEF InFile
<1>7. CASE x.place = "final"
  <2>1. Payload(r) = Result(r, 1..x.total) /\ Afterwards(r) = "summary"
    BY <1>7 DEF Payload, Afterwards
  <2>2. Noticed(r)' \subseteq x.done /\ x.done = 1..x.total
    BY <1>2, <1>4, <1>7, <2>1 DEF Noticed, Sound
  <2>3. Left(r)'
    BY <1>2, <1>3, <2>1 DEF Left
  <2>4. InFile(r)'
    <3>1. visible'[run'[r].command] = Result(r, 1..x.total)
      BY <1>3, <2>1
    <3>2. Noticed(r)' \subseteq 1..x.total
      BY <2>2
    <3>3. /\ IsResult(Result(r, 1..x.total)) /\ Result(r, 1..x.total).run = r
          /\ Result(r, 1..x.total).items = 1..x.total
      BY ResultFields
    <3> HIDE DEF x
    <3> QED BY <3>1, <3>2, <3>3 DEF InFile
  <2>5. run'[r].place \in Settled /\ run'[r].total = x.total /\ run'[r].done = x.done
    BY <1>2, <2>1 DEF Settled
  <2>6. Payload(r).run = r /\ Payload(r).items = 1..x.total
    BY <2>1, ResultFields
  <2> QED BY <2>2, <2>3, <2>4, <2>5, <2>6
<1> QED BY <1>1, <1>5, <1>6, <1>7 DEF Writing

(* What was written stays true while no file changes.                      *)
LEMMA FileInvQuiet ==
  ASSUME FileInv, UnchangedFiles,
         \A s \in Runs : Moved(run[s], run'[s]) /\ Quiet(run[s], run'[s])
  PROVE  FileInv'
<1>1. Shown'
  BY TellsStays DEF UnchangedFiles, FileInv, Shown, Tells
<1>2. ASSUME NEW r \in Runs PROVE Held(r)'
  <2>1. Held(r)
    BY DEF FileInv
  <2>2. Left(r) /\ run[r].place \in {"summary", "returned"} => Left(r)'
    BY DEF UnchangedFiles, Left, Moved, Settled
  <2>3. Noticed(r)' \subseteq Noticed(r)
    BY DEF Quiet, Noticed
  <2>4. InFile(r) => InFile(r)'
    BY <2>3 DEF UnchangedFiles, InFile, Moved
  <2> QED BY <2>1, <2>2, <2>3, <2>4 DEF UnchangedFiles, Held, Moved, Quiet
<1> QED BY <1>1, <1>2 DEF FileInv

LEMMA FileInvHolds == FileSpec => []FileInv
<1>1. FileInit => FileInv
  <2> SUFFICES ASSUME FileInit PROVE FileInv
    OBVIOUS
  <2>1. \A c \in Commands : visible[c] = Missing /\ durable[c] = Missing
    BY DEF FileInit
  <2>2. ~IsResult(Missing)
    BY DEF IsResult, Missing
  <2>3. ASSUME NEW r \in Runs PROVE run[r].place = "none" /\ run[r].logged = {}
    BY DEF FileInit, Fresh
  <2> QED BY <2>1, <2>2, <2>3 DEF FileInv, Shown, Tells, Held, Noticed
<1>2. ASSUME FileSound, FileInv, [FileNext]_fileVars PROVE FileInv'
  <2> USE <1>2
  <2>0. CASE UNCHANGED fileVars
    BY <2>0 DEF fileVars, FileInv, Shown, Tells, Held, Left, InFile, Noticed
  <2>1. ASSUME NEW r \in Runs, Step(r) PROVE FileInv'
    <3>1. /\ \A s \in Runs \ {r} : run'[s] = run[s]
          /\ Moved(run[r], run'[r])
          /\ Replace(r) \/ (UnchangedFiles /\ Quiet(run[r], run'[r]))
      BY <2>1, StepMoves DEF FileSound
    <3>2. \A s \in Runs : Moved(run[s], run'[s])
      BY <3>1 DEF Moved
    <3>3. CASE UnchangedFiles /\ Quiet(run[r], run'[r])
      <4>1. \A s \in Runs : Quiet(run[s], run'[s])
        BY <3>1, <3>3 DEF Quiet
      <4> QED BY <3>2, <3>3, <4>1, FileInvQuiet
    <3>4. CASE Replace(r)
      <4>1. /\ visible' = [visible EXCEPT ![run[r].command] = Payload(r)]
            /\ run[r].command \in Commands
            /\ UNCHANGED <<durable, powerLosses>>
        BY <3>4, Replaced DEF FileSound, Replace
      <4>2. /\ run'[r].place \in {"summary", "returned"} => Left(r)'
            /\ Noticed(r)' # {} => InFile(r)'
            /\ IsResult(Payload(r)) =>
                 /\ Payload(r).run = r /\ Payload(r).items \subseteq run'[r].done
                 /\ run[r].command \notin Checkpointing =>
                      Payload(r).items = 1..run'[r].total /\ run'[r].place \in Settled
        BY <3>4, OwnReplaces
      <4>3. Shown'
        <5> SUFFICES ASSUME NEW c \in Commands
                     PROVE  Tells(c, visible[c])' /\ Tells(c, durable[c])'
          BY DEF Shown
        <5>1. Tells(c, durable[c])'
          BY <3>2, <4>1, TellsStays DEF FileInv, Shown, Tells
        <5>2. CASE c = run[r].command
          <6>1. visible'[c] = Payload(r) /\ run'[r].command = c
            BY <3>1, <4>1, <5>2 DEF FileSound, FileTypeOK, Moved
          <6> QED BY <4>2, <5>1, <5>2, <6>1 DEF Tells
        <5>3. CASE c # run[r].command
          <6>1. visible'[c] = visible[c]
            BY <4>1, <5>3 DEF FileSound, FileTypeOK
          <6> QED BY <3>2, <5>1, <6>1, TellsStays DEF FileInv, Shown, Tells
        <5> QED BY <5>2, <5>3
      <4>4. ASSUME NEW s \in Runs \ {r} PROVE Held(s)'
        <5>1. Held(s) /\ run'[s] = run[s] /\ Noticed(s)' = Noticed(s)
          BY <3>1, <4>4 DEF FileInv, Noticed
        <5>2. /\ s \in superseded => s \in superseded'
              /\ s \notin superseded' /\ IsResult(visible[run[s].command])
                   /\ visible[run[s].command].run = s =>
                   visible'[run[s].command] = visible[run[s].command]
          BY <3>4, <4>4, OtherReplaces
        <5>3. Left(s) => Left(s)'
          BY <5>1, <5>2, ResultFields DEF Left
        <5>4. InFile(s) => s \in superseded' \/ InFile(s)'
          BY <5>1, <5>2 DEF InFile
        <5> QED BY <4>1, <5>1, <5>2, <5>3, <5>4 DEF Held
      <4>5. Held(r)'
        BY <4>2 DEF Held
      <4> QED BY <4>3, <4>4, <4>5 DEF FileInv
    <3> QED BY <3>1, <3>3, <3>4
  <2>2. ASSUME NEW c \in Commands, Commit(c) PROVE FileInv'
    <3>1. \A d \in Commands : durable'[d] \in {durable[d], visible[d]}
      BY <2>2 DEF Commit, FileSound, FileTypeOK
    <3> QED BY <2>2, <3>1
            DEF Commit, FileInv, Shown, Tells, Held, Left, InFile, Noticed
  <2>3. CASE PowerLoss
    <3>1. \A r \in Runs : Moved(run[r], run'[r]) /\ run'[r].place # "summary"
      BY <2>3, PowerLossKills DEF FileSound
    <3>2. powerLosses' # 0
      BY <2>3 DEF PowerLoss, FileSound, FileTypeOK
    <3>3. Shown'
      BY <2>3, <3>1, TellsStays DEF PowerLoss, FileInv, Shown, Tells
    <3> QED BY <3>1, <3>2, <3>3 DEF FileInv, Held
  <2>4. CASE Stops
    BY <2>4, StopMoves, FileInvQuiet DEF FileSound
  <2> QED BY <2>0, <2>1, <2>2, <2>3, <2>4, FileSteps
<1> QED BY <1>1, <1>2, RunsSound, PTL DEF FileSpec

(* A model that was reported as measured is in the file, whatever fails    *)
(* afterwards, unless another run replaced that or the power failed.       *)
THEOREM ReportedIsKept == FileSpec => []ReportedIsOnDisk
<1>1. FileInv => ReportedIsOnDisk
  <2> SUFFICES ASSUME FileInv, powerLosses = 0, NEW r \in Runs \ superseded,
                      run[r].logged # {}
               PROVE  /\ IsResult(visible[run[r].command])
                      /\ visible[run[r].command].run = r
                      /\ run[r].logged \subseteq visible[run[r].command].items
    BY DEF ReportedIsOnDisk
  <2> QED BY DEF FileInv, Held, InFile, Noticed
<1> QED BY <1>1, FileInvHolds, PTL

(* No file shows part of a run, but for checkpoints of what is done, and a *)
(* run that returned left all of it.                                       *)
THEOREM FilesAreComplete == FileSpec => []ResultsAreComplete
<1>1. FileInv => ResultsAreComplete
  BY DEF FileInv, Shown, Tells, Held, Left, ResultsAreComplete
<1> QED BY <1>1, FileInvHolds, PTL

(***************************************************************************)
(* HttpLog.  A log that is open has as many lines as it gave numbers, and  *)
(* the log that is current has no closing event before the thread that     *)
(* stops it recorded one.                                                  *)
(***************************************************************************)
LogRecords ==
  [file : {"none", "open", "off", "closed"}, sequence : Nat,
   lines : Seq(Lines), raced : BOOLEAN]

Closings(g) == {k \in 1..Len(g.lines) : g.lines[k].event = "run_finished"}

Numbered(g) ==
  /\ \A k \in 1..Len(g.lines) :
       /\ g.lines[k].sequence = k
       /\ ~g.lines[k].whole => k = Len(g.lines) /\ g.file = "off"
  /\ g.file = "open" => g.sequence = Len(g.lines)
  /\ g.file = "none" => g.lines = <<>> /\ g.sequence = 0

Finishes(g) ==
  \A k \in Closings(g) :
    /\ \A j \in Closings(g) : j = k
    /\ \A j \in k+1..Len(g.lines) : g.lines[j].event = "http"
    /\ g.lines[k].count <= k
    /\ ~g.raced => g.lines[k].count = k

(* What the thread that starts and stops the log knows of it.              *)
Controlled ==
  /\ current # 0 =>
       /\ log[current].file # "none"
       /\ control.place \in {"idle", "started", "counted"} =>
            Closings(log[current]) = {}
  /\ control.place = "counted" =>
       /\ control.count <= log[current].sequence + 1
       /\ log[current].file = "open" /\ ~log[current].raced =>
            control.count = log[current].sequence + 1
  /\ control.place \in {"finished", "closing"} /\ log[control.log].file = "open" =>
       Closings(log[control.log]) # {}

LogInv ==
  /\ \A l \in Logs :
       /\ Numbered(log[l]) /\ Finishes(log[l])
       /\ log[l].file = "closed" => Closings(log[l]) # {}
  /\ Controlled

(* Writing an event changes nothing, adds a line, whole or torn, or only   *)
(* switches the log off.                                                   *)
Added(l, event, count, g) ==
  /\ g \in LogRecords /\ g.sequence = log[l].sequence + 1
  /\ \/ /\ g.file = "open" /\ g.raced = Races(l, event)
        /\ g.lines = Append(log[l].lines, Line(l, event, count, TRUE))
     \/ /\ g.file = "off" /\ g.raced = log[l].raced
        /\ g.lines = Append(log[l].lines, Line(l, event, count, FALSE))
     \/ /\ g.file = "off" /\ g.raced = log[l].raced
        /\ g.lines = log[l].lines

LEMMA LogChanges ==
  ASSUME NEW h \in LogRecords, NEW file \in {"none", "open", "off", "closed"},
         NEW lines \in Seq(Lines), NEW raced \in BOOLEAN
  PROVE  [file |-> file, sequence |-> h.sequence + 1, lines |-> lines,
          raced |-> raced] \in LogRecords
<1>1. h.sequence + 1 \in Nat
  BY DEF LogRecords
<1> QED BY <1>1, Zenon DEF LogRecords

LEMMA Writes ==
  ASSUME LogTypeOK, NEW l \in Logs, NEW count \in Nat,
         NEW event \in {"run_started", "http", "run_finished"},
         Write(l, event, count)
  PROVE  \/ log[l].file # "open" /\ UNCHANGED log
         \/ /\ log[l].file = "open"
            /\ \E g : Added(l, event, count, g) /\ log' = [log EXCEPT ![l] = g]
<1> DEFINE h == log[l]
<1>1. log \in [Logs -> LogRecords] /\ h \in LogRecords
  BY DEF LogTypeOK, LogRecords
<1>2. \A w \in BOOLEAN : Line(l, event, count, w) \in Lines
  BY <1>1 DEF Line, Lines, LogRecords
<1>3. Races(l, event) \in BOOLEAN
  BY DEF Races
<1>4. CASE h.file = "open" /\
           log' = [log EXCEPT ![l].sequence = @ + 1, ![l].raced = Races(l, event),
                     ![l].lines = Append(@, Line(l, event, count, TRUE))]
  <2> DEFINE lines == Append(h.lines, Line(l, event, count, TRUE))
             g == [file |-> "open", sequence |-> h.sequence + 1,
                   lines |-> lines, raced |-> Races(l, event)]
  <2>1. log' = [log EXCEPT ![l] = g]
    BY <1>1, <1>4 DEF LogRecords
  <2>2. g \in LogRecords
    <3>1. Append(h.lines, Line(l, event, count, TRUE)) \in Seq(Lines)
      BY <1>1, <1>2, AppendProperties DEF LogRecords
    <3> QED BY <1>1, <1>3, <3>1, LogChanges
  <2>3. /\ g.sequence = h.sequence + 1 /\ g.file = "open"
        /\ g.lines = Append(h.lines, Line(l, event, count, TRUE))
    BY <1>1, <1>4 DEF LogRecords
  <2>4. g.raced = Races(l, event)
    BY <1>1, Zenon DEF LogRecords
  <2>5. Added(l, event, count, g)
    BY <2>2, <2>3, <2>4, Zenon DEF Added
  <2> QED BY <1>4, <2>1, <2>5
<1>5. ASSUME NEW part \in {<<>>, <<Line(l, event, count, FALSE)>>}, h.file = "open",
             log' = [log EXCEPT ![l].sequence = @ + 1, ![l].file = "off",
                       ![l].lines = @ \o part]
      PROVE  \E g : Added(l, event, count, g) /\ log' = [log EXCEPT ![l] = g]
  <2> DEFINE lines == h.lines \o part
             g == [file |-> "off", sequence |-> h.sequence + 1,
                   lines |-> lines, raced |-> h.raced]
  <2>1. log' = [log EXCEPT ![l] = g]
    BY <1>1, <1>5 DEF LogRecords
  <2>2. h.lines \in Seq(Lines)
    BY <1>1 DEF LogRecords
  <2>3. h.lines \o part = h.lines
        \/ h.lines \o part = Append(h.lines, Line(l, event, count, FALSE))
    <3>1. CASE part = <<>>
      BY <2>2, <3>1, ConcatEmptySeq
    <3>2. CASE part = <<Line(l, event, count, FALSE)>>
      <4> DEFINE line == Line(l, event, count, FALSE)
      <4>1. line \in Lines
        BY <1>2
      <4> HIDE DEF line
      <4>2. h.lines \o <<line>> = Append(h.lines, line)
        BY <2>2, <4>1
      <4> QED BY <3>2, <4>2 DEF line
    <3> QED BY <1>5, <3>1, <3>2
  <2>4. h.lines \o part \in Seq(Lines)
    <3>1. Append(h.lines, Line(l, event, count, FALSE)) \in Seq(Lines)
      BY <1>2, <2>2, AppendProperties
    <3> QED BY <2>2, <2>3, <3>1
  <2>5. g \in LogRecords
    <3>1. h.raced \in BOOLEAN
      BY <1>1 DEF LogRecords
    <3> QED BY <1>1, <2>4, <3>1, LogChanges
  <2>6. /\ g.sequence = h.sequence + 1 /\ g.file = "off"
        /\ g.lines = h.lines \o part
    BY <1>1 DEF LogRecords
  <2>7. g.raced = h.raced
    BY <1>1, Zenon DEF LogRecords
  <2>8. Added(l, event, count, g)
    BY <2>3, <2>5, <2>6, <2>7, Zenon DEF Added
  <2> QED BY <2>1, <2>8
<1> QED BY <1>4, <1>5 DEF Write

(* A log that may take the line keeps its numbers; it keeps its end when   *)
(* the line is another one, or the first closing event with its own number.*)
LEMMA AddedReads ==
  ASSUME LogTypeOK, NEW l \in Logs, log[l].file = "open", Numbered(log[l]),
         Finishes(log[l]), NEW count \in Nat, NEW g,
         NEW event \in {"run_started", "http", "run_finished"},
         Added(l, event, count, g),
         event = "http" \/ Closings(log[l]) = {},
         event = "run_finished" =>
           /\ count <= log[l].sequence + 1
           /\ ~log[l].raced => count = log[l].sequence + 1
  PROVE  /\ Numbered(g) /\ Finishes(g)
         /\ event # "run_finished" => Closings(g) = Closings(log[l])
         /\ event = "run_finished" /\ g.file = "open" => Closings(g) # {}
<1> DEFINE h == log[l]
           n == Len(h.lines)
<1>1. h \in LogRecords /\ h.lines \in Seq(Lines) /\ n \in Nat /\ h.sequence = n
  BY DEF LogTypeOK, LogRecords, Numbered
<1>2. CASE g.lines = h.lines /\ g.file = "off" /\ g.raced = h.raced
  <2>1. Closings(g) = Closings(h)
    BY <1>2 DEF Closings
  <2> QED BY <1>2, <2>1 DEF Numbered, Finishes
<1>3. ASSUME NEW w \in BOOLEAN, g.lines = Append(h.lines, Line(l, event, count, w)),
             g.file = IF w THEN "open" ELSE "off",
             g.raced = FALSE => h.raced = FALSE
      PROVE  /\ Numbered(g) /\ Finishes(g)
             /\ event # "run_finished" => Closings(g) = Closings(h)
             /\ event = "run_finished" /\ g.file = "open" => Closings(g) # {}
  <2> DEFINE line == Line(l, event, count, w)
  <2>1. /\ line.sequence = n + 1 /\ line.event = event /\ line.count = count
        /\ line.whole = w
    BY <1>1 DEF Line
  <2>2. /\ Len(g.lines) = n + 1 /\ g.lines[n + 1] = line
        /\ \A k \in 1..n : g.lines[k] = h.lines[k]
    BY <1>1, <1>3
  <2>3. 1..(n + 1) = (1..n) \cup {n + 1}
    BY <1>1
  <2>4. Numbered(g)
    <3>1. \A k \in 1..n : g.lines[k].sequence = k /\ g.lines[k].whole
      BY <1>1, <2>2 DEF Numbered
    <3>2. g.sequence = n + 1 /\ g.file # "none"
      BY <1>1, <1>3 DEF Added
    <3>3. ~g.lines[n + 1].whole => g.file = "off"
      BY <1>3, <2>1, <2>2
    <3>4. g.lines[n + 1].sequence = n + 1
      BY <2>1, <2>2
    <3>5. ASSUME NEW k \in 1..(n + 1)
          PROVE  /\ g.lines[k].sequence = k
                 /\ ~g.lines[k].whole => k = n + 1 /\ g.file = "off"
      <4>1. CASE k = n + 1
        BY <3>3, <3>4, <4>1
      <4>2. CASE k \in 1..n
        BY <3>1, <4>2
      <4> QED BY <2>3, <4>1, <4>2
    <3> QED BY <2>2, <3>2, <3>5 DEF Numbered
  <2>5. CASE event # "run_finished"
    <3>1. Closings(g) = Closings(h)
      BY <2>1, <2>2, <2>3, <2>5 DEF Closings
    <3>2. Finishes(g)
      <4> SUFFICES ASSUME NEW k \in Closings(h)
                   PROVE  /\ \A j \in Closings(h) : j = k
                          /\ \A j \in k+1..n+1 : g.lines[j].event = "http"
                          /\ g.lines[k].count <= k
                          /\ ~g.raced => g.lines[k].count = k
        BY <2>2, <3>1 DEF Finishes
      <4>1. event = "http" /\ k \in 1..n
        BY DEF Closings
      <4>2. \A j \in k+1..n+1 : j \in k+1..n \/ j = n + 1
        BY <1>1, <4>1
      <4>3. \A j \in k+1..n : j \in 1..n
        BY <1>1, <4>1
      <4>4. g.lines[k].count = h.lines[k].count
        BY <2>2, <4>1
      <4> QED BY <1>3, <2>1, <2>2, <4>1, <4>2, <4>3, <4>4 DEF Finishes, Added, LogRecords
    <3> QED BY <2>4, <2>5, <3>1, <3>2
  <2>6. CASE event = "run_finished"
    <3>1. Closings(g) = {n + 1}
      BY <2>1, <2>2, <2>3, <2>6 DEF Closings
    <3>2. \A j \in (n + 1)+1..n+1 : FALSE
      BY <1>1
    <3>3. count <= n + 1 /\ (~g.raced => count = n + 1)
      BY <1>1, <1>3, <2>6 DEF Added, LogRecords
    <3>4. Finishes(g)
      BY <2>1, <2>2, <3>1, <3>2, <3>3 DEF Finishes
    <3> QED BY <2>4, <2>6, <3>1, <3>4
  <2> QED BY <2>5, <2>6
<1>4. h.raced \in BOOLEAN /\ g.raced \in BOOLEAN
  BY <1>1 DEF Added, LogRecords
<1>5. Races(l, event) = FALSE => h.raced = FALSE
  BY <1>4 DEF Races
<1> QED BY <1>2, <1>3, <1>5 DEF Added

LEMMA LogFile ==
  ASSUME NEW h \in LogRecords, NEW file \in {"none", "open", "off", "closed"}
  PROVE  [h EXCEPT !.file = file] \in LogRecords
<1>1. [h EXCEPT !.file = file] =
        [file |-> file, sequence |-> h.sequence, lines |-> h.lines,
         raced |-> h.raced]
  BY DEF LogRecords
<1>2. h.sequence \in Nat /\ h.lines \in Seq(Lines) /\ h.raced \in BOOLEAN
  BY DEF LogRecords
<1> QED BY <1>1, <1>2, Zenon DEF LogRecords

LogPlaces == {"idle", "started", "counted", "finished", "closing"}
LogsOK == log \in [Logs -> LogRecords]

(* The thread that stops the log knows it, and who took a log has an event *)
(* to record.                                                              *)
LogKnown ==
  /\ control.place \in {"started", "counted", "finished"} => current # 0
  /\ control.place = "closing" => current = 0 /\ control.log # 0
  /\ current # 0 => current = control.log
  /\ \A t \in Threads : holds[t] # 0 => events[t] < MaxEvents

OtherTypes ==
  /\ current \in 0..MaxLogs
  /\ holds \in [Threads -> 0..MaxLogs] /\ events \in [Threads -> 0..MaxEvents]
  /\ control \in [place : LogPlaces, log : 0..MaxLogs, count : Nat]

LEMMA LogParts == LogTypeOK <=> LogsOK /\ OtherTypes
BY Zenon DEF LogTypeOK, LogsOK, OtherTypes, LogRecords, LogPlaces

LEMMA LogNumbers ==
  /\ 0 \in 0..MaxLogs /\ Logs \subseteq 0..MaxLogs
  /\ \A l \in 0..MaxLogs : l # 0 => l \in Logs
BY LogsAssumption DEF Logs

LEMMA WriteTypes ==
  ASSUME LogTypeOK, NEW l \in Logs, NEW count \in Nat,
         NEW event \in {"run_started", "http", "run_finished"},
         Write(l, event, count)
  PROVE  LogsOK'
<1>1. LogsOK
  BY LogParts
<1>2. CASE UNCHANGED log
  BY <1>1, <1>2 DEF LogsOK
<1>3. CASE \E g : Added(l, event, count, g) /\ log' = [log EXCEPT ![l] = g]
  BY <1>1, <1>3 DEF Added, LogsOK
<1> QED BY <1>2, <1>3, Writes

LEMMA LogTypes == LogSpec => [](LogTypeOK /\ LogKnown)
<1>1. LogInit => LogTypeOK /\ LogKnown
  <2> SUFFICES ASSUME LogInit PROVE LogTypeOK /\ LogKnown
    OBVIOUS
  <2>1. [file |-> "none", sequence |-> 0, lines |-> <<>>, raced |-> FALSE]
          \in LogRecords
    <3>1. <<>> \in Seq(Lines)
      BY EmptySeq
    <3> QED BY <3>1, Zenon DEF LogRecords
  <2>2. LogsOK
    BY <2>1, Zenon DEF LogInit, LogsOK
  <2>3. OtherTypes /\ LogKnown
    BY LogsAssumption DEF LogInit, OtherTypes, LogKnown, LogPlaces
  <2> QED BY <2>2, <2>3, LogParts
<1>2. ASSUME LogTypeOK, LogKnown, [LogNext]_logVars PROVE (LogTypeOK /\ LogKnown)'
  <2> USE <1>2
  <2>1. LogsOK /\ OtherTypes
    BY LogParts
  <2>2. SUFFICES LogsOK' /\ OtherTypes' /\ LogKnown'
    BY LogParts, PTL
  <2>3. CASE UNCHANGED logVars
    BY <2>1, <2>3 DEF logVars, LogsOK, OtherTypes, LogKnown
  <2>4. ASSUME NEW t \in Threads, Take(t) PROVE LogsOK' /\ OtherTypes' /\ LogKnown'
    BY <2>1, <2>4 DEF Take, LogsOK, OtherTypes, LogKnown
  <2>5. ASSUME NEW t \in Threads, Record(t)
        PROVE  LogsOK' /\ OtherTypes' /\ LogKnown'
    <3>1. holds[t] \in Logs
      BY <2>1, <2>5, LogNumbers DEF Record, OtherTypes
    <3>2. LogsOK'
      BY <2>5, <3>1, WriteTypes DEF Record
    <3>3. events[t] < MaxEvents /\ events[t] + 1 \in 0..MaxEvents
      BY <2>1, <2>5, LogsAssumption DEF Record, OtherTypes, LogKnown
    <3>4. OtherTypes'
      BY <2>1, <2>5, <3>3, LogNumbers DEF Record, OtherTypes
    <3>5. LogKnown'
      BY <2>1, <2>5 DEF Record, OtherTypes, LogKnown
    <3> QED BY <3>2, <3>4, <3>5
  <2>6. CASE StartLog
    <3>1. PICK l \in Logs :
            /\ log' = [log EXCEPT ![l].file = "open"] /\ current' = l
            /\ control' = [control EXCEPT !.place = "started", !.log = l]
      BY <2>6 DEF StartLog
    <3>2. [log[l] EXCEPT !.file = "open"] \in LogRecords
      BY <2>1, LogFile DEF LogsOK
    <3>3. LogsOK'
      BY <2>1, <3>1, <3>2 DEF LogsOK
    <3>4. l \in 0..MaxLogs /\ l # 0
      BY LogNumbers, LogsAssumption DEF Logs
    <3> QED BY <2>1, <2>6, <3>1, <3>3, <3>4
            DEF StartLog, OtherTypes, LogKnown, LogPlaces
  <2>7. CASE Started
    <3>1. current \in Logs
      BY <2>1, <2>7, LogNumbers DEF Started, LogKnown, OtherTypes
    <3>2. LogsOK'
      BY <2>7, <3>1, WriteTypes DEF Started
    <3> QED BY <2>1, <2>7, <3>2 DEF Started, At, OtherTypes, LogKnown, LogPlaces
  <2>8. CASE Count
    <3>1. current \in Logs
      BY <2>1, <2>8, LogNumbers DEF Count, OtherTypes
    <3>2. log[current].sequence + 1 \in Nat
      <4>1. \A h \in LogRecords : h.sequence + 1 \in Nat
        BY DEF LogRecords
      <4> QED BY <2>1, <3>1, <4>1 DEF LogsOK
    <3>3. LogsOK'
      BY <2>1, <2>8 DEF Count, LogsOK
    <3> QED BY <2>1, <2>8, <3>2, <3>3 DEF Count, OtherTypes, LogKnown, LogPlaces
  <2>9. CASE FinishedLog
    <3>1. current \in Logs
      BY <2>1, <2>9, LogNumbers DEF FinishedLog, LogKnown, OtherTypes
    <3>2. LogsOK'
      BY <2>1, <2>9, <3>1, WriteTypes DEF FinishedLog, OtherTypes
    <3> QED BY <2>1, <2>9, <3>2 DEF FinishedLog, At, OtherTypes, LogKnown, LogPlaces
  <2>10. CASE TakenAway
    <3>1. LogsOK'
      BY <2>1, <2>10 DEF TakenAway, LogsOK
    <3> QED BY <2>1, <2>10, <3>1, LogNumbers
            DEF TakenAway, At, OtherTypes, LogKnown, LogPlaces
  <2>11. CASE CloseLog
    <3>1. control.log \in Logs
      BY <2>1, <2>11, LogNumbers DEF CloseLog, LogKnown, OtherTypes
    <3>2. PICK file \in {"none", "open", "off", "closed"} :
            log' = [log EXCEPT ![control.log].file = file]
      <4>1. \A h \in LogRecords : h.file \in {"none", "open", "off", "closed"}
        BY DEF LogRecords
      <4> QED BY <2>1, <2>11, <3>1, <4>1 DEF CloseLog, LogsOK
    <3>3. [log[control.log] EXCEPT !.file = file] \in LogRecords
      BY <2>1, <3>1, LogFile DEF LogsOK
    <3>4. LogsOK'
      BY <2>1, <3>2, <3>3 DEF LogsOK
    <3> QED BY <2>1, <2>11, <3>4 DEF CloseLog, At, OtherTypes, LogKnown, LogPlaces
  <2> QED BY <2>3, <2>4, <2>5, <2>6, <2>7, <2>8, <2>9, <2>10, <2>11 DEF LogNext
<1> QED BY <1>1, <1>2, PTL DEF LogSpec

(* Writing an event keeps every log readable.                              *)
LEMMA WriteReads ==
  ASSUME LogTypeOK, LogInv, NEW l \in Logs, NEW count \in Nat,
         NEW event \in {"run_started", "http", "run_finished"},
         Write(l, event, count),
         event = "http" \/ Closings(log[l]) = {},
         event = "run_finished" /\ log[l].file = "open" =>
           /\ count <= log[l].sequence + 1
           /\ ~log[l].raced => count = log[l].sequence + 1
  PROVE  /\ \A m \in Logs :
              /\ Numbered(log'[m]) /\ Finishes(log'[m])
              /\ log'[m].file = "closed" => Closings(log'[m]) # {}
              /\ log[m].file # "none" => log'[m].file # "none"
              /\ event # "run_finished" => Closings(log'[m]) = Closings(log[m])
              /\ log'[m].sequence >= log[m].sequence
              /\ m # l => log'[m] = log[m]
         /\ log'[l].file = "open" =>
              /\ log'[l].sequence = log[l].sequence + 1
              /\ log'[l].raced = Races(l, event)
              /\ event = "run_finished" => Closings(log'[l]) # {}
<1>0. log \in [Logs -> LogRecords] /\ \A h \in LogRecords : h.sequence \in Nat
  BY LogParts DEF LogsOK, LogRecords
<1>1. CASE log[l].file # "open" /\ UNCHANGED log
  BY <1>0, <1>1 DEF LogInv
<1>2. ASSUME log[l].file = "open", NEW g, Added(l, event, count, g),
             log' = [log EXCEPT ![l] = g]
      PROVE  /\ \A m \in Logs :
                  /\ Numbered(log'[m]) /\ Finishes(log'[m])
                  /\ log'[m].file = "closed" => Closings(log'[m]) # {}
                  /\ log[m].file # "none" => log'[m].file # "none"
                  /\ event # "run_finished" => Closings(log'[m]) = Closings(log[m])
                  /\ log'[m].sequence >= log[m].sequence
                  /\ m # l => log'[m] = log[m]
             /\ log'[l].file = "open" =>
                  /\ log'[l].sequence = log[l].sequence + 1
                  /\ log'[l].raced = Races(l, event)
                  /\ event = "run_finished" => Closings(log'[l]) # {}
  <2>1. log'[l] = g /\ \A m \in Logs : m # l => log'[m] = log[m]
    BY <1>0, <1>2
  <2>2. /\ Numbered(g) /\ Finishes(g)
        /\ event # "run_finished" => Closings(g) = Closings(log[l])
        /\ event = "run_finished" /\ g.file = "open" => Closings(g) # {}
    BY <1>2, AddedReads DEF LogInv
  <2>3. /\ g.sequence = log[l].sequence + 1 /\ g.file \in {"open", "off"}
        /\ g.file = "open" => g.raced = Races(l, event)
    BY <1>2, Zenon DEF Added
  <2>4. g.sequence >= log[l].sequence
    BY <1>0, <2>3
  <2>5. ASSUME NEW m \in Logs
        PROVE  /\ Numbered(log'[m]) /\ Finishes(log'[m])
               /\ log'[m].file = "closed" => Closings(log'[m]) # {}
               /\ log[m].file # "none" => log'[m].file # "none"
               /\ event # "run_finished" => Closings(log'[m]) = Closings(log[m])
               /\ log'[m].sequence >= log[m].sequence
    <3>1. CASE m = l
      BY <2>1, <2>2, <2>3, <2>4, <3>1
    <3>2. CASE m # l
      BY <1>0, <2>1, <3>2 DEF LogInv
    <3> QED BY <3>1, <3>2
  <2> QED BY <2>1, <2>2, <2>3, <2>5
<1> QED BY <1>1, <1>2, Writes

LEMMA LogInvHolds == LogSpec => []LogInv
<1>1. LogInit => LogInv
  <2> SUFFICES ASSUME LogInit PROVE LogInv
    OBVIOUS
  <2>1. \A l \in Logs : /\ log[l].file = "none" /\ log[l].lines = <<>>
                         /\ log[l].sequence = 0
    BY DEF LogInit
  <2>2. \A l \in Logs : Closings(log[l]) = {}
    BY <2>1 DEF Closings
  <2>3. ASSUME NEW l \in Logs PROVE Numbered(log[l]) /\ Finishes(log[l])
    <3>1. Len(log[l].lines) = 0
      BY <2>1
    <3> QED BY <2>1, <2>2, <3>1 DEF Numbered, Finishes
  <2>4. Controlled
    BY DEF LogInit, Controlled
  <2> QED BY <2>1, <2>3, <2>4 DEF LogInv
<1>2. ASSUME LogTypeOK, LogKnown, LogInv, [LogNext]_logVars PROVE LogInv'
  <2> USE <1>2
  <2>1. LogsOK /\ OtherTypes /\ Controlled
    BY LogParts DEF LogInv
  <2>2. current # 0 => current \in Logs /\ current = control.log
    BY <2>1, LogNumbers DEF OtherTypes, LogKnown
  <2>3. \A m \in Logs : log[m].sequence \in Nat
    <3>1. \A h \in LogRecords : h.sequence \in Nat
      BY DEF LogRecords
    <3> QED BY <2>1, <3>1 DEF LogsOK
  <2>4. CASE UNCHANGED logVars
    BY <2>4, Zenon DEF logVars, LogInv, Controlled
  <2>5. ASSUME NEW t \in Threads, Take(t) PROVE LogInv'
    BY <2>5, Zenon DEF Take, LogInv, Controlled
  <2>6. ASSUME NEW t \in Threads, Record(t) PROVE LogInv'
    <3> DEFINE l == holds[t]
    <3>1. l \in Logs /\ Write(l, "http", 0) /\ UNCHANGED <<current, control>>
      BY <2>1, <2>6, LogNumbers DEF Record, OtherTypes
    <3>2. /\ \A m \in Logs :
               /\ Numbered(log'[m]) /\ Finishes(log'[m])
               /\ log'[m].file = "closed" => Closings(log'[m]) # {}
               /\ log[m].file # "none" => log'[m].file # "none"
               /\ Closings(log'[m]) = Closings(log[m])
               /\ log'[m].sequence >= log[m].sequence
               /\ m # l => log'[m] = log[m]
          /\ log'[l].file = "open" => log'[l].raced = Races(l, "http")
      BY <3>1, WriteReads
    <3>3. LogsOK'
      BY <3>1, WriteTypes
    <3>4. control.place = "counted" => Races(l, "http")
      BY DEF Races
    <3>5. \A m \in Logs : log'[m].file = "open" => log[m].file = "open"
      <4>1. log'[l].file = "open" => log[l].file = "open"
        BY <3>1, Writes DEF Added
      <4> QED BY <3>2, <4>1
    <3>6. control.place = "counted" => current \in Logs
      BY <2>2 DEF LogKnown
    <3>7. control.place = "counted" =>
            /\ control.count <= log'[current].sequence + 1
            /\ log'[current].file = "open" /\ ~log'[current].raced =>
                 control.count = log'[current].sequence + 1
      <4> SUFFICES ASSUME control.place = "counted"
                   PROVE  /\ control.count <= log'[current].sequence + 1
                          /\ log'[current].file = "open" /\ ~log'[current].raced =>
                               control.count = log'[current].sequence + 1
        OBVIOUS
      <4>1. log'[current].sequence \in Nat /\ control.count \in Nat
        <5>1. \A h \in LogRecords : h.sequence \in Nat
          BY DEF LogRecords
        <5> QED BY <2>1, <3>3, <3>6, <5>1 DEF LogsOK, OtherTypes
      <4>2. control.count <= log'[current].sequence + 1
        BY <2>1, <2>3, <3>2, <3>6, <4>1 DEF Controlled
      <4>3. CASE current = l
        BY <3>2, <3>4, <4>2, <4>3
      <4>4. CASE current # l
        BY <2>1, <3>2, <3>6, <4>2, <4>4 DEF Controlled
      <4> QED BY <4>3, <4>4
    <3>8. control.place \in {"finished", "closing"} => control.log \in Logs
      BY <2>1, <2>2, LogNumbers DEF LogKnown, OtherTypes
    <3>9. Controlled'
      BY <2>1, <2>2, <3>1, <3>2, <3>5, <3>7, <3>8 DEF Controlled
    <3> QED BY <3>2, <3>9 DEF LogInv
  <2>7. CASE StartLog
    <3>1. PICK l \in Logs :
            /\ log[l].file = "none" /\ log' = [log EXCEPT ![l].file = "open"]
            /\ current' = l
            /\ control' = [control EXCEPT !.place = "started", !.log = l]
      BY <2>7 DEF StartLog
    <3>2. /\ log'[l].lines = log[l].lines /\ log'[l].file = "open"
          /\ log'[l].sequence = log[l].sequence
          /\ \A m \in Logs : m # l => log'[m] = log[m]
      BY <2>1, <3>1 DEF LogsOK, LogRecords
    <3>3. log[l].lines = <<>>
      BY <3>1 DEF LogInv, Numbered
    <3>4. Closings(log'[l]) = {}
      BY <3>2, <3>3 DEF Closings
    <3>5. Len(log'[l].lines) = 0 /\ log'[l].sequence = 0
      BY <3>1, <3>2, <3>3 DEF LogInv, Numbered
    <3>6. Numbered(log'[l]) /\ Finishes(log'[l])
      BY <3>2, <3>4, <3>5 DEF Numbered, Finishes
    <3>7. ASSUME NEW m \in Logs
          PROVE  /\ Numbered(log'[m]) /\ Finishes(log'[m])
                 /\ log'[m].file = "closed" => Closings(log'[m]) # {}
      BY <3>2, <3>6 DEF LogInv
    <3>8. Controlled'
      BY <2>1, <3>1, <3>2, <3>4 DEF Controlled, OtherTypes
    <3> QED BY <3>7, <3>8 DEF LogInv
  <2>8. CASE Started
    <3>1. /\ current \in Logs /\ Write(current, "run_started", 0)
          /\ Closings(log[current]) = {} /\ UNCHANGED current
          /\ control' = [control EXCEPT !.place = "idle"]
      BY <2>1, <2>2, <2>8 DEF Started, At, LogKnown, Controlled
    <3>2. \A m \in Logs :
            /\ Numbered(log'[m]) /\ Finishes(log'[m])
            /\ log'[m].file = "closed" => Closings(log'[m]) # {}
            /\ log[m].file # "none" => log'[m].file # "none"
            /\ Closings(log'[m]) = Closings(log[m])
      BY <3>1, WriteReads
    <3>3. Controlled'
      BY <2>1, <3>1, <3>2 DEF Controlled, OtherTypes
    <3> QED BY <3>2, <3>3 DEF LogInv
  <2>9. CASE Count
    <3>1. UNCHANGED <<current, log>> /\ current \in Logs
      BY <2>2, <2>9 DEF Count
    <3>2. control'.place = "counted" /\ control'.count = log[current].sequence + 1
      BY <2>1, <2>9 DEF Count, OtherTypes
    <3>3. Controlled'
      BY <2>1, <2>3, <2>9, <3>1, <3>2 DEF Count, Controlled
    <3> QED BY <3>1, <3>3 DEF LogInv
  <2>10. CASE FinishedLog
    <3>1. /\ current \in Logs /\ current = control.log /\ control.count \in Nat
          /\ Write(current, "run_finished", control.count)
          /\ Closings(log[current]) = {} /\ UNCHANGED current
          /\ control'.place = "finished" /\ control'.log = control.log
      BY <2>1, <2>2, <2>10 DEF FinishedLog, At, LogKnown, Controlled, OtherTypes
    <3>2. log[current].file = "open" =>
            /\ control.count <= log[current].sequence + 1
            /\ ~log[current].raced => control.count = log[current].sequence + 1
      BY <2>1, <2>10 DEF FinishedLog, Controlled
    <3>3. /\ \A m \in Logs :
               /\ Numbered(log'[m]) /\ Finishes(log'[m])
               /\ log'[m].file = "closed" => Closings(log'[m]) # {}
               /\ log[m].file # "none" => log'[m].file # "none"
          /\ log'[current].file = "open" => Closings(log'[current]) # {}
      BY <3>1, <3>2, WriteReads
    <3>4. Controlled'
      BY <2>1, <3>1, <3>3, LogsAssumption DEF Controlled, Logs
    <3> QED BY <3>3, <3>4 DEF LogInv
  <2>11. CASE TakenAway
    <3>1. current = control.log /\ control.place = "finished" /\ UNCHANGED log
      BY <2>2, <2>11 DEF TakenAway, LogKnown
    <3>2. current' = 0 /\ control'.place = "closing" /\ control'.log = control.log
      BY <2>1, <2>11 DEF TakenAway, At, OtherTypes
    <3>3. Controlled'
      BY <2>1, <3>1, <3>2 DEF Controlled
    <3> QED BY <3>1, <3>3 DEF LogInv
  <2>12. CASE CloseLog
    <3> DEFINE l == control.log
    <3>1. /\ l \in Logs /\ current = 0 /\ UNCHANGED current
          /\ control'.place = "idle"
      BY <2>1, <2>12, LogNumbers DEF CloseLog, At, LogKnown, OtherTypes
    <3>2. /\ \A m \in Logs : m # l => log'[m] = log[m]
          /\ log'[l].file = IF log[l].file = "open" THEN "closed" ELSE log[l].file
          /\ log'[l].lines = log[l].lines /\ log'[l].sequence = log[l].sequence
      BY <2>1, <2>12, <3>1 DEF CloseLog, LogsOK, LogRecords
    <3>3. log'[l].raced = log[l].raced
      BY <2>1, <2>12, <3>1, Zenon DEF CloseLog, LogsOK, LogRecords
    <3>4. Closings(log'[l]) = Closings(log[l])
      BY <3>2 DEF Closings
    <3>5. Numbered(log'[l]) /\ Finishes(log'[l])
      <4>1. Numbered(log[l]) /\ Finishes(log[l])
        BY <3>1 DEF LogInv
      <4>2. ~log'[l].raced => ~log[l].raced
        BY <3>3, Zenon
      <4>3. Numbered(log'[l])
        BY <3>2, <4>1 DEF Numbered
      <4>4. Finishes(log'[l])
        BY <3>2, <3>4, <4>1, <4>2 DEF Finishes
      <4> QED BY <4>3, <4>4
    <3>6. log[l].file = "open" => Closings(log[l]) # {}
      BY <2>1, <2>12 DEF CloseLog, Controlled
    <3>7. ASSUME NEW m \in Logs
          PROVE  /\ Numbered(log'[m]) /\ Finishes(log'[m])
                 /\ log'[m].file = "closed" => Closings(log'[m]) # {}
      BY <3>1, <3>2, <3>4, <3>5, <3>6 DEF LogInv
    <3>8. Controlled'
      BY <3>1 DEF Controlled
    <3> QED BY <3>7, <3>8 DEF LogInv
  <2> QED BY <2>4, <2>5, <2>6, <2>7, <2>8, <2>9, <2>10, <2>11, <2>12 DEF LogNext
<1> QED BY <1>1, <1>2, LogTypes, PTL DEF LogSpec

(* The variables of the log keep their types.                              *)
THEOREM LogTypeCorrect == LogSpec => []LogTypeOK
BY LogTypes, PTL

(* A log can be read, whoever wrote to it and whatever failed: its numbers *)
(* have no gap, and its closing event ends it and counts it.               *)
THEOREM LogsAreReadable == LogSpec => []LogReads
<1>1. LogInv => LogReads
  BY DEF LogInv, Numbered, Finishes, Closings, LogReads
<1> QED BY <1>1, LogInvHolds, PTL

(***************************************************************************)
(* Terminal.  What is known of a worker by itself, and of the process it   *)
(* belongs to.                                                             *)
(***************************************************************************)
AppRecords ==
  [life : {"down", "up", "quitting"}, stack : Seq(Screens),
   left : SUBSET (Commands \cup {Nil}), rushed : BOOLEAN,
   memory : Valid \cup {"none"}, saving : Texts \cup {"none", "written"}]

WorkerRecords ==
  [at : Going \cup {"none", "done", "cut"},
   heading : {"none", "Progress", "Completed", "Stopped"},
   hears : BOOLEAN, told : BOOLEAN, app : Apps \cup {Nil}]

Said == {"Completed", "Stopped"}

Well(w) ==
  /\ w.at = "none" => w = Idle
  /\ w.at # "none" => w.app \in Apps
  /\ w.at \in {"started", "authenticating"} => ~w.told
  /\ w.at \in {"started", "authenticating", "acting"} => w.heading = "Progress"
  /\ w.at \in {"closing", "done"} /\ ~w.told => w.heading \in Said
  /\ w.at \in Hearing => w.hears
  /\ w.hears => w.at \in Hearing \/ (w.at = "cut" /\ w.told)

Lives(a) ==
  /\ a.life = "down" => a = Down
  /\ a.life = "quitting" => a.stack = <<>> /\ a.saving = "none"

OwnTyped ==
  settings \in Contents /\ saves \in 0..MaxSaves /\ lateKeys \in 0..MaxLate

TermSound ==
  /\ app \in [Apps -> AppRecords] /\ worker \in [Runs -> WorkerRecords]
  /\ OwnTyped
  /\ \A p \in Apps : Lives(app[p])
  /\ \A r \in Runs :
       /\ Well(worker[r])
       /\ worker[r].app \in Apps => app[worker[r].app].life # "down"

LEMMA FreshSound ==
  /\ Down \in AppRecords /\ Lives(Down)
  /\ Idle \in WorkerRecords /\ Well(Idle)
<1>1. <<>> \in Seq(Screens)
  OBVIOUS
<1>2. Down \in AppRecords
  BY <1>1 DEF Down, AppRecords
<1>3. Idle \in WorkerRecords
  BY DEF Idle, WorkerRecords
<1> QED BY <1>2, <1>3 DEF Down, Lives, Idle, Well, Hearing

LEMMA StoppedWell ==
  ASSUME NEW w \in WorkerRecords, Well(w)
  PROVE  /\ Stopped(w) \in WorkerRecords /\ Well(Stopped(w))
         /\ Stopped(w).app \in {w.app, Nil}
         /\ Stopped(w).app = Nil => Stopped(w) = Idle
         /\ Stopped(w).at \in Going => Stopped(w).told
         /\ Stopped(w).heading \in {w.heading, "none"}
         /\ Stopped(w).at = "acting" <=> w.at = "acting"
         /\ Stopped(w).at \notin {"started", "authenticating"}
<1>1. Idle \in WorkerRecords /\ Well(Idle) /\ Nil \notin Apps
  BY FreshSound, NilAssumption
<1>2. CASE w.at \notin Going
  <2>1. Stopped(w) \in {Idle, w}
    BY <1>2 DEF Stopped
  <2>2. Stopped(w) = Idle => w.at = "done" \/ w = Idle
    BY <1>2 DEF Stopped
  <2>3. w.app = Nil => w = Idle
    BY <1>1 DEF Well
  <2>4. CASE Stopped(w) = w
    BY <1>2, <2>3, <2>4 DEF Going, Hearing
  <2>5. CASE Stopped(w) = Idle
    BY <1>1, <2>2, <2>5 DEF Idle, Going, Hearing
  <2> QED BY <2>1, <2>4, <2>5
<1>3. CASE w.at \in Going
  <2> DEFINE to == IF w.at \in {"started", "closing"} THEN "cut"
                   ELSE IF w.at = "authenticating" THEN "closing" ELSE w.at
             v == [w EXCEPT !.told = TRUE, !.at = to]
  <2>1. Stopped(w) = v
    BY <1>3 DEF Stopped
  <2>2. v \in WorkerRecords /\ v.at = to /\ v.told /\ v.app = w.app
        /\ v.hears = w.hears /\ v.heading = w.heading
    BY <1>3 DEF WorkerRecords, Going, Hearing
  <2>3. w.app \in Apps
    BY <1>3 DEF Well, Going, Hearing
  <2>4. to \in {"cut", "closing", "acting"} /\ (to = "acting" <=> w.at = "acting")
    BY <1>3 DEF Going, Hearing
  <2>5. Well(v)
    BY <1>3, <2>2, <2>3, <2>4 DEF Well, Going, Hearing
  <2> HIDE DEF v, to
  <2> QED BY <1>1, <2>1, <2>2, <2>3, <2>4, <2>5
<1> QED BY <1>2, <1>3

(* The moves of a process: of its own record, with workers that are        *)
(* stopped; of one worker; and its end.                                    *)
LEMMA AppMoves ==
  ASSUME TermSound, NEW p \in Apps, NEW b \in AppRecords, Lives(b), b.life # "down",
         app' = [app EXCEPT ![p] = b], OwnTyped',
         worker' = worker \/ \E R : Stop(R)
  PROVE  TermSound'
<1>1. app' \in [Apps -> AppRecords]
  BY DEF TermSound
<1>2. worker' \in [Runs -> WorkerRecords]
      /\ \A r \in Runs : worker'[r] \in {worker[r], Stopped(worker[r])}
  BY StoppedWell DEF TermSound, Stop
<1>3. ASSUME NEW r \in Runs
      PROVE  Well(worker'[r])
             /\ (worker'[r].app \in Apps => app'[worker'[r].app].life # "down")
  <2>1. Well(worker'[r]) /\ worker'[r].app \in {worker[r].app, Nil}
    BY <1>2, StoppedWell DEF TermSound
  <2>2. worker[r].app \in Apps => app'[worker[r].app].life # "down"
    BY DEF TermSound
  <2> QED BY <2>1, <2>2, NilAssumption
<1>4. \A q \in Apps : Lives(app'[q])
  BY DEF TermSound
<1> QED BY <1>1, <1>2, <1>3, <1>4 DEF TermSound

LEMMA WorkerMoves ==
  ASSUME TermSound, NEW r \in Runs, NEW w \in WorkerRecords, Well(w),
         w.app = worker[r].app, worker' = [worker EXCEPT ![r] = w],
         UNCHANGED <<app, ownVars, lateKeys>>
  PROVE  TermSound'
<1>1. worker' \in [Runs -> WorkerRecords]
  BY DEF TermSound
<1>2. \A s \in Runs : Well(worker'[s]) /\ worker'[s].app = worker[s].app
  BY DEF TermSound
<1> QED BY <1>1, <1>2 DEF TermSound, OwnTyped, ownVars

LEMMA EndMoves ==
  ASSUME TermSound, NEW p \in Apps, Ends(p), OwnTyped'
  PROVE  TermSound'
<1>1. app' \in [Apps -> AppRecords] /\ worker' \in [Runs -> WorkerRecords]
  BY FreshSound DEF TermSound, Ends
<1>2. \A q \in Apps : Lives(app'[q])
  BY FreshSound DEF TermSound, Ends
<1>3. ASSUME NEW r \in Runs
      PROVE  Well(worker'[r])
             /\ (worker'[r].app \in Apps => app'[worker'[r].app].life # "down")
  <2>1. CASE worker[r].app = p
    BY <2>1, FreshSound, NilAssumption DEF Ends, Idle
  <2>2. CASE worker[r].app # p
    BY <2>2 DEF Ends, TermSound
  <2> QED BY <2>1, <2>2
<1> QED BY <1>1, <1>2, <1>3 DEF TermSound

LEMMA KeyTyped ==
  ASSUME TermSound, NEW p \in Apps, NEW late, Key(p, late)
  PROVE  /\ app[p].life = "up" /\ app[p] \in AppRecords
         /\ lateKeys' \in 0..MaxLate
         /\ UNCHANGED ownVars => OwnTyped'
BY SavesAssumption DEF TermSound, OwnTyped, Key, Free, ownVars

(* Screens that are there, and what removing some of them leaves.          *)
LEMMA ScreenKinds ==
  /\ Menu \in Screens /\ Settings \in Screens
  /\ \A c \in Commands : \A k \in Nat : Question(c, k) \in Screens
  /\ \A r \in Runs : Execution(r) \in Screens
  /\ \A s \in Screens :
       /\ s.kind = "entry" => s = Menu
       /\ s.kind = "settings" => s = Settings
       /\ s.kind = "param" => s.of \in Commands /\ s.step \in Nat
                              /\ s = Question(s.of, s.step)
       /\ s.kind = "execution" => s.of \in Runs /\ s = Execution(s.of)
       /\ s.kind \in {"param", "settings"} => s.of \in Commands \cup {Nil}
  /\ \A c, k : Question(c, k).kind = "param" /\ Question(c, k).of = c
               /\ Question(c, k).step = k
  /\ \A r : Execution(r).kind = "execution" /\ Execution(r).of = r
  /\ Menu.kind = "entry" /\ Settings.kind = "settings"
BY DEF Screens, Menu, Settings, Question, Execution

LEMMA StackKept ==
  ASSUME NEW s \in Seq(Screens), NEW n \in 1..2, n <= Len(s)
  PROVE  /\ Sub(s, n) \in Seq(Screens) /\ Len(Sub(s, n)) = Len(s) - n
         /\ \A i \in 1..(Len(s) - n) : Sub(s, n)[i] = s[i]
<1>1. Len(s) \in Nat /\ Len(s) - n \in 0..Len(s) /\ n \in Nat
  OBVIOUS
<1> DEFINE m == Len(s) - n
<1>2. m \in Nat /\ m <= Len(s)
  BY <1>1
<1>3. \A i \in 1..m : s[i] \in Screens
  BY <1>2
<1> QED BY <1>2, <1>3 DEF Sub

LEMMA StackGrows ==
  ASSUME NEW s \in Seq(Screens), NEW x \in Screens
  PROVE  /\ Append(s, x) \in Seq(Screens) /\ Len(Append(s, x)) = Len(s) + 1
         /\ Append(s, x)[Len(s) + 1] = x
         /\ \A i \in 1..Len(s) : Append(s, x)[i] = s[i]
  OBVIOUS


LEMMA StackChanges ==
  ASSUME NEW s \in Seq(Screens), NEW i \in 1..Len(s), NEW x \in Screens
  PROVE  /\ [s EXCEPT ![i] = x] \in Seq(Screens)
         /\ Len([s EXCEPT ![i] = x]) = Len(s)
         /\ \A j \in 1..Len(s) : [s EXCEPT ![i] = x][j] = IF j = i THEN x ELSE s[j]
BY ExceptSeq

LEMMA Stacks ==
  ASSUME TermSound, NEW p \in Apps
  PROVE  /\ app[p] \in AppRecords /\ app[p].stack \in Seq(Screens)
         /\ Depth(p) \in Nat
         /\ \A i \in 1..Depth(p) : app[p].stack[i] \in Screens
BY DEF TermSound, AppRecords, Depth

(* The keys that change a stack, and what else they change of a process.   *)
Restacked(p, t, late) ==
  \E b \in AppRecords :
    /\ app' = [app EXCEPT ![p] = b] /\ Lives(b) /\ b.life = "up"
    /\ b.stack = t /\ b.rushed = (app[p].rushed \/ late)

Answered(t, s, i, x) ==
  /\ Len(t) = Len(s)
  /\ \A j \in 1..Len(s) : t[j] = IF j = i THEN x ELSE s[j]

LEMMA PushMoves ==
  ASSUME TermSound, NEW p \in Apps, NEW late \in BOOLEAN, NEW x \in Screens,
         Push(p, late, x), app[p].life = "up"
  PROVE  Restacked(p, Append(app[p].stack, x), late)
<1> DEFINE a == app[p]
           b == [a EXCEPT !.stack = Append(@, x), !.rushed = @ \/ late]
<1>1. a \in AppRecords /\ app \in [Apps -> AppRecords] /\ a.life = "up"
  BY Stacks DEF TermSound
<1>2. app' = [app EXCEPT ![p] = b]
  BY <1>1 DEF Push
<1>3. Append(a.stack, x) \in Seq(Screens)
  BY <1>1, StackGrows DEF AppRecords
<1>4. b \in AppRecords /\ b.life = "up" /\ b.stack = Append(a.stack, x)
      /\ b.rushed = (a.rushed \/ late)
  BY <1>1, <1>3 DEF AppRecords
<1> HIDE DEF b
<1> QED BY <1>2, <1>4 DEF Lives, Restacked

LEMMA PopMoves ==
  ASSUME TermSound, NEW p \in Apps, NEW late \in BOOLEAN, NEW n \in 1..2,
         app[p].life = "up", n <= Depth(p), Pop(p, late, n)
  PROVE  Restacked(p, Sub(app[p].stack, n), late)
<1> DEFINE a == app[p]
           b == [a EXCEPT !.stack = Sub(@, n), !.left = Kept(p, n),
                          !.rushed = @ \/ late]
<1>1. /\ a \in AppRecords /\ app \in [Apps -> AppRecords] /\ a.life = "up"
      /\ a.stack \in Seq(Screens) /\ n <= Len(a.stack)
  BY Stacks DEF TermSound, Depth
<1>2. app' = [app EXCEPT ![p] = b]
  <2>1. ~(n > Depth(p))
    BY Stacks
  <2>2. app' = [app EXCEPT ![p].stack = Sub(@, n), ![p].left = Kept(p, n),
                           ![p].rushed = @ \/ late]
    BY <2>1 DEF Pop
  <2> QED BY <1>1, <2>2
<1>3. Sub(a.stack, n) \in Seq(Screens)
  BY <1>1, StackKept
<1>4. \A s \in RemovedScreens(p, n) : s \in Screens
  BY Stacks DEF RemovedScreens
<1>5. Kept(p, n) \in SUBSET (Commands \cup {Nil})
  BY <1>1, <1>4, ScreenKinds DEF Kept, AppRecords
<1>6. b \in AppRecords /\ b.life = "up" /\ b.stack = Sub(a.stack, n)
      /\ b.rushed = (a.rushed \/ late)
  BY <1>1, <1>3, <1>5 DEF AppRecords
<1> HIDE DEF b
<1> QED BY <1>2, <1>6 DEF Lives, Restacked

(* An answer, or the way back to the question before.                      *)
Answers(p, i, k, late) ==
  app' = [app EXCEPT ![p].stack[i].step = k, ![p].rushed = @ \/ late]

LEMMA AnswerMoves ==
  ASSUME TermSound, NEW p \in Apps, NEW late \in BOOLEAN, app[p].life = "up",
         NEW i \in 1..Depth(p), NEW k \in Nat, app[p].stack[i].kind = "param",
         Answers(p, i, k, late)
  PROVE  \E t \in Seq(Screens) :
           /\ Restacked(p, t, late)
           /\ Answered(t, app[p].stack, i, Question(app[p].stack[i].of, k))
<1> DEFINE a == app[p]
           x == Question(a.stack[i].of, k)
           t == [a.stack EXCEPT ![i] = x]
           b == [a EXCEPT !.stack = t, !.rushed = @ \/ late]
<1>1. /\ a \in AppRecords /\ app \in [Apps -> AppRecords] /\ a.life = "up"
      /\ a.stack \in Seq(Screens) /\ i \in 1..Len(a.stack)
      /\ a.stack[i] \in Screens
  BY Stacks DEF TermSound, Depth
<1>2. [a.stack[i] EXCEPT !.step = k] = x /\ x \in Screens
  BY <1>1, ScreenKinds DEF Question
<1>3. [a.stack EXCEPT ![i].step = k] = t
  BY <1>2
<1>4. t \in Seq(Screens) /\ Answered(t, a.stack, i, x)
  BY <1>1, <1>2, StackChanges DEF Answered
<1> HIDE DEF t, x
<1>5. app' = [app EXCEPT ![p] = b]
  BY <1>1, <1>3 DEF Answers
<1>6. b \in AppRecords /\ b.life = "up" /\ b.stack = t
      /\ b.rushed = (a.rushed \/ late)
  BY <1>1, <1>4 DEF AppRecords
<1> HIDE DEF b
<1>7. Restacked(p, t, late)
  BY <1>5, <1>6 DEF Lives, Restacked
<1> QED BY <1>4, <1>7 DEF x


LEMMA KeyPops ==
  ASSUME TermSound, NEW p \in Apps, NEW late \in BOOLEAN, NEW n \in 1..2,
         Key(p, late), Pop(p, late, n), UNCHANGED ownVars
  PROVE  TermSound'
<1>1. app[p].life = "up" /\ OwnTyped' /\ n \in Nat /\ Depth(p) \in Nat
  BY KeyTyped, Stacks
<1>2. CASE n <= Depth(p)
  <2>1. \E R : Stop(R)
    BY <1>1, <1>2 DEF Pop
  <2>2. PICK b \in AppRecords :
          app' = [app EXCEPT ![p] = b] /\ Lives(b) /\ b.life = "up"
    BY <1>1, <1>2, PopMoves DEF Restacked
  <2> QED BY <1>1, <2>1, <2>2, AppMoves
<1>3. CASE n > Depth(p)
  <2>1. Ends(p)
    BY <1>1, <1>3 DEF Pop
  <2> QED BY <1>1, <2>1, EndMoves
<1> QED BY <1>1, <1>2, <1>3

LEMMA Began ==
  ASSUME NEW p \in Apps
  PROVE  LET w == [Idle EXCEPT !.at = "started", !.heading = "Progress", !.app = p]
         IN  w \in WorkerRecords /\ Well(w) /\ w.app = p /\ w.at = "started"
             /\ ~w.told /\ w.heading = "Progress" /\ ~w.hears
BY DEF Idle, WorkerRecords, Well, Going, Hearing

LEMMA ExecuteMoves ==
  ASSUME TermSound, NEW p \in Apps, NEW late \in BOOLEAN, NEW c \in Commands,
         Key(p, late), Execute(p, late, c)
  PROVE  TermSound'
<1> DEFINE w == [Idle EXCEPT !.at = "started", !.heading = "Progress", !.app = p]
<1>1. app[p].life = "up" /\ OwnTyped'
  BY KeyTyped DEF Execute
<1>2. PICK r \in Runs :
        Waiting(r) /\ Push(p, late, Execution(r)) /\ worker' = [worker EXCEPT ![r] = w]
  BY DEF Execute
<1>3. PICK b \in AppRecords :
        app' = [app EXCEPT ![p] = b] /\ Lives(b) /\ b.life = "up"
  BY <1>1, <1>2, ScreenKinds, PushMoves DEF Restacked
<1>4. w \in WorkerRecords /\ Well(w) /\ w.app = p
  BY Began
<1> HIDE DEF w
<1>5. worker' \in [Runs -> WorkerRecords] /\ app' \in [Apps -> AppRecords]
  BY <1>2, <1>3, <1>4 DEF TermSound
<1>6. \A q \in Apps : Lives(app'[q])
  BY <1>3 DEF TermSound
<1>7. ASSUME NEW s \in Runs
      PROVE  Well(worker'[s])
             /\ (worker'[s].app \in Apps => app'[worker'[s].app].life # "down")
  <2>1. CASE s = r
    BY <1>2, <1>3, <1>4, <2>1 DEF TermSound
  <2>2. CASE s # r
    BY <1>2, <1>3, <2>2 DEF TermSound
  <2> QED BY <2>1, <2>2
<1> QED BY <1>1, <1>5, <1>6, <1>7 DEF TermSound

LEMMA ScreenMoves ==
  ASSUME TermSound, FileTypeOK, NEW p \in Apps, ScreenStep(p)
  PROVE  TermSound'
<1>1. CASE Select(p)
  <2>1. PICK late \in BOOLEAN, r \in Runs :
          Key(p, late) /\ Push(p, late, Question(run[r].command, 1))
    BY <1>1 DEF Select
  <2>2. run[r].command \in Commands
    BY DEF FileTypeOK
  <2>3. app[p].life = "up" /\ OwnTyped' /\ worker' = worker
    BY <1>1, <2>1, KeyTyped DEF Select
  <2>4. PICK b \in AppRecords :
          app' = [app EXCEPT ![p] = b] /\ Lives(b) /\ b.life = "up"
    BY <2>1, <2>2, <2>3, ScreenKinds, PushMoves DEF Restacked
  <2> QED BY <2>3, <2>4, AppMoves
<1>2. CASE ConfirmLeft(p)
  BY <1>2, ExecuteMoves DEF ConfirmLeft
<1>3. CASE BackLeft(p)
  BY <1>3, KeyPops, TRUE \in BOOLEAN, 1 \in 1..2, Zenon DEF BackLeft
<1>4. ASSUME NEW i \in 1..Depth(p), Confirm(p, i) PROVE TermSound'
  <2> DEFINE c == app[p].stack[i].of
             k == app[p].stack[i].step
  <2>1. PICK late \in BOOLEAN :
          /\ Key(p, late) /\ app[p].stack[i].kind = "param"
          /\ \/ /\ app' = [app EXCEPT ![p].stack[i].step = k + 1,
                                    ![p].rushed = @ \/ late]
                /\ UNCHANGED <<worker, ownVars>>
             \/ Execute(p, late, c)
    BY <1>4 DEF Confirm, Shows
  <2>2. app[p].life = "up" /\ (UNCHANGED ownVars => OwnTyped')
    BY <2>1, KeyTyped
  <2>3. c \in Commands /\ k \in Nat
    BY <2>1, Stacks, ScreenKinds
  <2>4. CASE Execute(p, late, c)
    BY <2>1, <2>3, <2>4, ExecuteMoves
  <2>5. CASE ~Execute(p, late, c)
    <3>1. /\ app' = [app EXCEPT ![p].stack[i].step = k + 1, ![p].rushed = @ \/ late]
          /\ UNCHANGED <<worker, ownVars>>
      BY <2>1, <2>5
    <3>2. PICK m \in Nat : Answers(p, i, m, late)
      <4>1. k + 1 \in Nat
        BY <2>3
      <4> HIDE DEF k
      <4> QED BY <3>1, <4>1 DEF Answers
    <3>3. PICK b \in AppRecords :
            app' = [app EXCEPT ![p] = b] /\ Lives(b) /\ b.life = "up"
      <4>1. \E t : Restacked(p, t, late)
        BY <2>1, <2>2, <3>2, AnswerMoves
      <4> QED BY <4>1 DEF Restacked
    <3> QED BY <2>2, <3>1, <3>3, AppMoves
  <2> QED BY <2>4, <2>5
<1>5. ASSUME NEW i \in 1..Depth(p), Back(p, i) PROVE TermSound'
  <2> DEFINE k == app[p].stack[i].step
  <2>1. PICK late \in BOOLEAN :
          /\ Key(p, late) /\ app[p].stack[i].kind = "param" /\ UNCHANGED ownVars
          /\ \/ /\ app' = [app EXCEPT ![p].stack[i].step = k - 1,
                                    ![p].rushed = @ \/ late]
                /\ worker' = worker /\ k > 1
             \/ Pop(p, late, 1)
    BY <1>5 DEF Back, Shows
  <2>2. app[p].life = "up" /\ OwnTyped' /\ k \in Nat
    BY <2>1, KeyTyped, Stacks, ScreenKinds
  <2>3. CASE Pop(p, late, 1)
    BY <2>1, <2>3, KeyPops, 1 \in 1..2
  <2>4. CASE ~Pop(p, late, 1)
    <3>1. /\ app' = [app EXCEPT ![p].stack[i].step = k - 1, ![p].rushed = @ \/ late]
          /\ worker' = worker /\ k > 1
      BY <2>1, <2>4
    <3>2. PICK m \in Nat : Answers(p, i, m, late)
      <4>1. k - 1 \in Nat
        BY <2>2, <3>1
      <4> HIDE DEF k
      <4> QED BY <3>1, <4>1 DEF Answers
    <3>3. PICK b \in AppRecords :
            app' = [app EXCEPT ![p] = b] /\ Lives(b) /\ b.life = "up"
      <4>1. \E t : Restacked(p, t, late)
        BY <2>1, <2>2, <3>2, AnswerMoves
      <4> QED BY <4>1 DEF Restacked
    <3> QED BY <2>2, <3>1, <3>3, AppMoves
  <2> QED BY <2>3, <2>4
<1>6. ASSUME NEW i \in 1..Depth(p), CloseSettings(p, i) PROVE TermSound'
  <2>1. PICK late \in BOOLEAN : Key(p, late) /\ Pop(p, late, 1) /\ UNCHANGED ownVars
    BY <1>6 DEF CloseSettings
  <2> QED BY <2>1, KeyPops, 1 \in 1..2
<1>7. ASSUME NEW r \in Runs, Return(p, r) PROVE TermSound'
  <2>1. PICK late \in BOOLEAN : Key(p, late) /\ Pop(p, late, 2) /\ UNCHANGED ownVars
    BY <1>7 DEF Return
  <2> QED BY <2>1, KeyPops, 2 \in 1..2
<1>8. CASE OpenSettings(p)
  <2>1. /\ Key(p, FALSE) /\ Push(p, FALSE, Settings)
        /\ worker' = worker /\ UNCHANGED ownVars
    BY <1>8 DEF OpenSettings
  <2>2. app[p].life = "up" /\ OwnTyped'
    BY <2>1, KeyTyped
  <2>3. PICK b \in AppRecords :
          app' = [app EXCEPT ![p] = b] /\ Lives(b) /\ b.life = "up"
    BY <2>1, <2>2, ScreenKinds, PushMoves DEF Restacked
  <2> QED BY <2>1, <2>2, <2>3, AppMoves
<1> QED BY <1>1, <1>2, <1>3, <1>4, <1>5, <1>6, <1>7, <1>8 DEF ScreenStep


LEMMA OwnMoves ==
  ASSUME TermSound, NEW p \in Apps,
         Start(p) \/ Save(p) \/ Saved(p) \/ Reloaded(p) \/ Quit(p) \/ Gone(p) \/ Dies(p)
  PROVE  TermSound'
<1> USE Stacks, AppMoves, EndMoves, TextsAssumption
<1>1. app[p] \in AppRecords /\ Lives(app[p]) /\ app \in [Apps -> AppRecords]
  BY DEF TermSound
<1>2. OwnTyped /\ (UNCHANGED <<ownVars, lateKeys>> => OwnTyped')
  BY DEF TermSound, OwnTyped, ownVars
<1>3. CASE Start(p)
  <2> DEFINE b == [Down EXCEPT !.life = "up", !.stack = <<Menu>>, !.memory = settings]
  <2>1. OwnTyped'
    BY <1>2, <1>3 DEF Start, OwnTyped, Contents, Valid
  <2>2. CASE app' = app
    BY <1>3, <2>1, <2>2 DEF Start, TermSound
  <2>3. CASE app' # app
    <3>1. app' = [app EXCEPT ![p] = b] /\ worker' = worker /\ settings \in Valid
      BY <1>3, <2>3 DEF Start
    <3>2. <<Menu>> \in Seq(Screens)
      BY ScreenKinds
    <3>3. b \in AppRecords /\ b.life = "up"
      BY <3>1, <3>2 DEF Down, AppRecords
    <3> HIDE DEF b
    <3> QED BY <2>1, <3>1, <3>3 DEF Lives
  <2> QED BY <2>2, <2>3
<1>4. CASE Save(p)
  <2>1. OwnTyped'
    BY <1>2, <1>4, SavesAssumption DEF Save, OwnTyped, Contents
  <2>2. PICK u \in Texts : app' = [app EXCEPT ![p].saving = u]
    BY <1>4 DEF Save
  <2> DEFINE b == [app[p] EXCEPT !.saving = u]
  <2>3. b \in AppRecords /\ b.life = "up" /\ app' = [app EXCEPT ![p] = b]
    BY <1>1, <1>4, <2>2 DEF Save, Free, AppRecords
  <2> HIDE DEF b
  <2> QED BY <1>4, <2>1, <2>3 DEF Save, Lives
<1>5. CASE Saved(p)
  <2> DEFINE b == [app[p] EXCEPT !.saving = "written"]
  <2>1. OwnTyped'
    BY <1>2, <1>5 DEF Saved, OwnTyped, Contents
  <2>2. app[p].life = "up"
    <3>1. app[p].saving # "none"
      BY <1>5, TextsAssumption DEF Saved
    <3> QED BY <1>1, <3>1 DEF Lives, Down, AppRecords
  <2>3. b \in AppRecords /\ b.life = "up" /\ app' = [app EXCEPT ![p] = b]
    BY <1>1, <1>5, <2>2 DEF Saved, AppRecords
  <2> HIDE DEF b
  <2> QED BY <1>5, <2>1, <2>3 DEF Saved, Lives
<1>6. CASE Reloaded(p)
  <2>1. OwnTyped'
    BY <1>2, <1>6 DEF Reloaded
  <2>2. CASE Ends(p)
    BY <2>1, <2>2
  <2>3. CASE ~Ends(p)
    <3> DEFINE b == [app[p] EXCEPT !.saving = "none",
                       !.memory = IF settings \in Valid THEN settings ELSE @]
    <3>1. app[p].life = "up"
      BY <1>1, <1>6 DEF Reloaded, Lives, Down, AppRecords
    <3>2. app' = [app EXCEPT ![p] = b] /\ worker' = worker
      BY <1>1, <1>6, <2>3 DEF Reloaded
    <3>3. b \in AppRecords /\ b.life = "up"
      BY <1>1, <3>1 DEF AppRecords
    <3> HIDE DEF b
    <3> QED BY <2>1, <3>2, <3>3 DEF Lives
  <2> QED BY <2>2, <2>3
<1>7. CASE Quit(p)
  <2> DEFINE b == [app[p] EXCEPT !.life = "quitting", !.stack = <<>>]
  <2>1. OwnTyped' /\ Stop(Of(p)) /\ app' = [app EXCEPT ![p] = b]
        /\ app[p].saving = "none"
    BY <1>1, <1>2, <1>7 DEF Quit, Free, Suspended
  <2>2. <<>> \in Seq(Screens)
    OBVIOUS
  <2>3. b \in AppRecords /\ b.life = "quitting" /\ b.stack = <<>> /\ b.saving = "none"
    BY <1>1, <2>1, <2>2 DEF AppRecords
  <2> HIDE DEF b
  <2> QED BY <2>1, <2>3 DEF Lives
<1>8. CASE Gone(p) \/ Dies(p)
  BY <1>2, <1>8 DEF Gone, Dies
<1> QED BY <1>3, <1>4, <1>5, <1>6, <1>7, <1>8

(* A worker after one of its steps.                                        *)
Advanced(w, at, heading) ==
  [w EXCEPT !.at = at, !.heading = IF w.told THEN @ ELSE heading,
            !.hears = at \in Hearing]

Follows(r, at, heading) ==
  /\ worker' = [worker EXCEPT ![r] = Advanced(worker[r], at, heading)]
  /\ UNCHANGED <<app, ownVars, lateKeys>>

LEMMA StepKinds ==
  ASSUME NEW r \in Runs, WorkerStep(r), TermSound
  PROVE  \/ /\ worker[r].at = "started"
            /\ \/ Follows(r, "authenticating", "Progress")
               \/ Follows(r, "done", "Stopped")
            /\ UNCHANGED fileVars
         \/ worker[r].at = "authenticating" /\ Follows(r, "acting", "Progress") /\ Begin(r)
         \/ /\ worker[r].at = "authenticating" /\ Follows(r, "closing", "Stopped")
            /\ UNCHANGED fileVars
         \/ Acts(r) /\ RunStep(r) /\ UNCHANGED <<app, worker, ownVars, lateKeys>>
         \/ /\ Acts(r) /\ run[r].place = "returned" /\ Follows(r, "closing", "Completed")
            /\ UNCHANGED fileVars
         \/ /\ Acts(r) /\ run[r].place = "raised" /\ Follows(r, "closing", "Stopped")
            /\ UNCHANGED fileVars
         \/ /\ worker[r].at = "closing" /\ Follows(r, "done", worker[r].heading)
            /\ UNCHANGED fileVars
         \/ /\ worker[r].at = "closing" /\ worker[r].app \in Apps
            /\ Ends(worker[r].app) /\ UNCHANGED <<ownVars, lateKeys>>
<1>1. ASSUME NEW at, NEW heading, Becomes(r, at, heading)
      PROVE  Follows(r, at, heading)
  BY <1>1 DEF Becomes, Follows, Advanced, TermSound, WorkerRecords
<1>2. worker[r].at = "closing" => worker[r].app \in Apps
  BY DEF TermSound, Well
<1>3. CASE Configured(r)
  BY <1>1, <1>3 DEF Configured
<1>4. CASE Authenticated(r)
  BY <1>1, <1>4 DEF Authenticated
<1>5. CASE AuthenticationFails(r)
  BY <1>1, <1>5 DEF AuthenticationFails
<1>6. CASE ActionStep(r)
  BY <1>6 DEF ActionStep
<1>7. CASE ActionReturned(r) \/ ActionRaised(r)
  BY <1>1, <1>7 DEF ActionReturned, ActionRaised
<1>8. CASE Closed(r)
  BY <1>1, <1>2, <1>8 DEF Closed
<1> QED BY <1>3, <1>4, <1>5, <1>6, <1>7, <1>8 DEF WorkerStep


Allowed(w, at, heading) ==
  /\ w.at \in Going
  /\ \/ at = "authenticating" /\ heading = "Progress" /\ w.at = "started"
     \/ at = "acting" /\ heading = "Progress" /\ w.at = "authenticating"
     \/ at = "closing" /\ heading \in Said
     \/ at = "done" /\ heading = "Stopped"
     \/ at = "done" /\ heading = w.heading /\ w.at = "closing"

LEMMA AdvancedWell ==
  ASSUME NEW w \in WorkerRecords, Well(w), NEW at, NEW heading,
         Allowed(w, at, heading)
  PROVE  LET v == Advanced(w, at, heading)
         IN  /\ v \in WorkerRecords /\ Well(v) /\ v.app = w.app /\ v.told = w.told
             /\ v.at = at /\ v.heading = IF w.told THEN w.heading ELSE heading
<1> DEFINE v == Advanced(w, at, heading)
<1>1. heading \in {"none", "Progress", "Completed", "Stopped"}
      /\ at \in {"authenticating", "acting", "closing", "done"}
  BY DEF WorkerRecords, Said, Allowed
<1>2. (at \in Hearing) \in BOOLEAN
  OBVIOUS
<1>3. /\ v \in WorkerRecords /\ v.app = w.app /\ v.told = w.told /\ v.at = at
      /\ v.heading = IF w.told THEN w.heading ELSE heading
      /\ v.hears <=> at \in Hearing
  BY <1>1, <1>2 DEF Advanced, WorkerRecords, Going, Hearing
<1>4. w.app \in Apps
  BY DEF Well, Going, Hearing, Allowed
<1>5. Well(v)
  BY <1>1, <1>3, <1>4 DEF Well, Said, Going, Hearing, Allowed
<1> QED BY <1>3, <1>5

LEMMA FollowsSound ==
  ASSUME TermSound, NEW r \in Runs, NEW at, NEW heading, Follows(r, at, heading),
         Allowed(worker[r], at, heading)
  PROVE  TermSound'
<1> DEFINE v == Advanced(worker[r], at, heading)
<1>1. worker[r] \in WorkerRecords /\ Well(worker[r])
  BY DEF TermSound
<1>2. v \in WorkerRecords /\ Well(v) /\ v.app = worker[r].app
  BY <1>1, AdvancedWell
<1>3. worker' = [worker EXCEPT ![r] = v] /\ UNCHANGED <<app, ownVars, lateKeys>>
  BY DEF Follows
<1> HIDE DEF v
<1> QED BY <1>2, <1>3, WorkerMoves, Zenon

LEMMA TermMoves ==
  ASSUME TermSound, FileTypeOK, [TermNext]_termVars
  PROVE  TermSound'
<1>1. CASE UNCHANGED termVars
  BY <1>1 DEF termVars, ownVars, TermSound, OwnTyped
<1>2. ASSUME NEW p \in Apps, AppStep(p) PROVE TermSound'
  BY <1>2, ScreenMoves, OwnMoves DEF AppStep
<1>3. ASSUME NEW r \in Runs, WorkerStep(r) PROVE TermSound'
  <2>1. UNCHANGED <<ownVars, lateKeys>> => OwnTyped'
    BY DEF TermSound, OwnTyped, ownVars
  <2>2. CASE UNCHANGED <<app, worker, ownVars, lateKeys>>
    BY <2>1, <2>2 DEF TermSound
  <2>3. CASE worker[r].app \in Apps /\ Ends(worker[r].app) /\ UNCHANGED <<ownVars, lateKeys>>
    BY <2>1, <2>3, EndMoves
  <2>4. CASE /\ ~(UNCHANGED <<app, worker, ownVars, lateKeys>>)
             /\ ~(/\ worker[r].app \in Apps /\ Ends(worker[r].app)
                  /\ UNCHANGED <<ownVars, lateKeys>>)
    <3>1. PICK at, heading : Follows(r, at, heading) /\ Allowed(worker[r], at, heading)
      BY <1>3, <2>4, StepKinds DEF Allowed, Going, Hearing, Said, Acts
    <3> QED BY <3>1, FollowsSound
  <2> QED BY <2>2, <2>3, <2>4
<1>4. CASE PowerFails
  <2>1. /\ app' = [p \in Apps |-> Down] /\ worker' = [r \in Runs |-> Idle]
        /\ OwnTyped'
    BY <1>4 DEF PowerFails, TermSound, OwnTyped, ownVars
  <2>2. Idle.app = Nil
    BY DEF Idle
  <2> QED BY <2>1, <2>2, FreshSound, NilAssumption DEF TermSound
<1>5. CASE Written
  BY <1>5 DEF Written, TermSound, OwnTyped, ownVars
<1> QED BY <1>1, <1>2, <1>3, <1>4, <1>5 DEF TermNext


(***************************************************************************)
(* What the terminals do to the runs is what their actions do, what a      *)
(* cancellation and the end of a process do, and what the file system and  *)
(* a power loss do: the theorems about ResultFiles hold for them.          *)
(***************************************************************************)
LEMMA Interruptions ==
  /\ \A p \in Apps : Ends(p) => Stops
  /\ \A R \in SUBSET Runs : Stop(R) => Stops
  /\ \A p \in Apps : \A late, n : Pop(p, late, n) => Stops
<1>1. \A p \in Apps : Ends(p) => Stops
  <2>1. \A p : {r \in Of(p) : run[r].place \notin Over} \in SUBSET Runs
    BY DEF Of
  <2> QED BY <2>1 DEF Ends, Stops
<1>2. \A R \in SUBSET Runs : Stop(R) => Stops
  <2>1. \A R \in SUBSET Runs : {r \in R : Acts(r)} \in SUBSET Runs
    OBVIOUS
  <2> QED BY <2>1 DEF Stop, Stops
<1>3. \A p \in Apps : \A late, n : Pop(p, late, n) => Stops
  <2>1. \A p, n : {r \in Runs : Execution(r) \in RemovedScreens(p, n)} \in SUBSET Runs
    OBVIOUS
  <2> QED BY <1>1, <1>2, <2>1 DEF Pop
<1> QED BY <1>1, <1>2, <1>3

LEMMA RunMoves ==
  ASSUME [TermNext]_termVars, TermSound
  PROVE  \/ UNCHANGED fileVars
         \/ Stops
         \/ \E c \in Commands : Commit(c)
         \/ PowerLoss
         \/ \E r \in Runs : Begin(r) \/ RunStep(r)
<1>1. ASSUME NEW p \in Apps, ScreenStep(p)
      PROVE  UNCHANGED fileVars \/ Stops
  <2>1. CASE Select(p) \/ OpenSettings(p) \/ ConfirmLeft(p)
    BY <2>1 DEF Select, OpenSettings, ConfirmLeft, Execute
  <2>2. CASE BackLeft(p)
    BY <2>2, Interruptions DEF BackLeft
  <2>3. ASSUME NEW i \in 1..Depth(p), Confirm(p, i) \/ Back(p, i) \/ CloseSettings(p, i)
        PROVE  UNCHANGED fileVars \/ Stops
    BY <2>3, Interruptions DEF Confirm, Back, CloseSettings, Execute
  <2>4. ASSUME NEW r \in Runs, Return(p, r) PROVE Stops
    BY <2>4, Interruptions DEF Return
  <2> QED BY <1>1, <2>1, <2>2, <2>3, <2>4 DEF ScreenStep
<1>2. ASSUME NEW p \in Apps, AppStep(p)
      PROVE  UNCHANGED fileVars \/ Stops
  <2>1. Of(p) \in SUBSET Runs
    BY DEF Of
  <2>2. CASE Start(p) \/ Save(p) \/ Saved(p)
    BY <2>2 DEF Start, Save, Saved
  <2>3. CASE Reloaded(p) \/ Quit(p) \/ Gone(p) \/ Dies(p)
    BY <2>1, <2>3, Interruptions DEF Reloaded, Quit, Gone, Dies
  <2> QED BY <1>1, <1>2, <2>2, <2>3 DEF AppStep
<1>3. ASSUME NEW r \in Runs, WorkerStep(r)
      PROVE  UNCHANGED fileVars \/ Stops \/ Begin(r) \/ RunStep(r)
  BY <1>3, StepKinds, Interruptions
<1> QED BY <1>2, <1>3 DEF TermNext, termVars, PowerFails, Written

LEMMA TermSoundFirst == ASSUME TermInit PROVE TermSound
<1>1. OwnTyped
  BY SavesAssumption DEF TermInit, OwnTyped, Contents
<1>2. Idle.app = Nil
  BY DEF Idle
<1> QED BY <1>1, <1>2, FreshSound, NilAssumption DEF TermInit, TermSound

LEMMA TerminalsAreSound == TermSpec => [](TermSound /\ FileSound)
<1>1. TermInit => TermSound /\ FileSound
  BY TermSoundFirst, FileSoundFirst DEF TermInit
<1>2. ASSUME TermSound, FileSound, [TermNext]_termVars
      PROVE  TermSound' /\ FileSound'
  <2>1. [FileNext]_fileVars
    BY <1>2, RunMoves DEF FileNext, Stops
  <2> QED BY <1>2, <2>1, FileSoundKept, TermMoves DEF FileSound
<1> QED BY <1>1, <1>2, PTL DEF TermSpec

LEMMA TerminalsRunActions == TermSpec => FileSpec
<1>1. TermInit => FileInit
  BY DEF TermInit
<1>2. TermSound /\ [TermNext]_termVars => [FileNext]_fileVars
  BY RunMoves DEF FileNext, Stops
<1> QED BY <1>1, <1>2, TerminalsAreSound, PTL DEF TermSpec, FileSpec

(* The variables of the terminals keep their types.                        *)
THEOREM TerminalTypeCorrect == TermSpec => []TermTypeOK
<1>1. TermSound /\ FileSound => TermTypeOK
  BY DEF TermSound, FileSound, OwnTyped, TermTypeOK, AppRecords, WorkerRecords
<1> QED BY <1>1, TerminalsAreSound, PTL


(***************************************************************************)
(* A worker and the run it executes.                                       *)
(***************************************************************************)
(* A step of a run by its worker leaves the others' results, and its own   *)
(* when it returns.                                                        *)
LEMMA WorkerSteps ==
  ASSUME FileSound, FileInv, NEW r \in Runs, Step(r),
         run[r].place = "returned" => Left(r)
  PROVE  /\ \A s \in Runs \ {r} :
              run'[s] = run[s] /\ (run[s].place = "returned" /\ Left(s) => Left(s)')
         /\ run'[r].place = "returned" => Left(r)'
<1>1. /\ \A s \in Runs \ {r} : run'[s] = run[s]
      /\ Moved(run[r], run'[r])
      /\ Replace(r) \/ UnchangedFiles
  BY StepMoves DEF FileSound
<1>2. ASSUME NEW s \in Runs \ {r}, Left(s) PROVE Left(s)'
  <2>1. CASE UnchangedFiles
    BY <1>1, <1>2, <2>1 DEF UnchangedFiles, Left
  <2>2. CASE Replace(r)
    <3>1. /\ s \in superseded => s \in superseded'
          /\ s \notin superseded' /\ IsResult(visible[run[s].command])
               /\ visible[run[s].command].run = s =>
               visible'[run[s].command] = visible[run[s].command]
      BY <2>2, OtherReplaces
    <3> QED BY <1>1, <1>2, <3>1, ResultFields DEF Left
  <2> QED BY <1>1, <2>1, <2>2
<1>3. ASSUME run'[r].place = "returned" PROVE Left(r)'
  <2>1. run[r].place \in {"summary", "returned"}
    BY <1>1, <1>3 DEF Moved
  <2>2. Left(r) /\ run'[r].total = run[r].total /\ run'[r].command = run[r].command
    BY <1>1, <2>1 DEF Moved, Settled, FileInv, Held
  <2>3. CASE UnchangedFiles
    BY <2>2, <2>3 DEF UnchangedFiles, Left
  <2>4. CASE Replace(r)
    BY <1>3, <2>4, OwnReplaces
  <2> QED BY <1>1, <2>3, <2>4
<1> QED BY <1>1, <1>2, <1>3

Agrees(r) ==
  /\ run[r].place \notin Over => Acts(r)
  /\ worker[r].heading = "Completed" => run[r].place = "returned"
  /\ worker[r].heading = "Stopped" => run[r].place \in {"none", "raised"}
  /\ worker[r].at \in {"started", "authenticating"} => run[r].place = "none"
  /\ worker[r].at # "none" /\ run[r].place = "returned" => Left(r)

AllAgree == \A r \in Runs : Agrees(r)

LEMMA EndAgrees ==
  ASSUME AllAgree, FileTypeOK, NEW p \in Apps, Ends(p)
  PROVE  AllAgree'
<1>1. UnchangedFiles
  BY DEF Ends, Kill
<1>2. \A r \in Runs : run[r] \in RunTypes
  BY DEF FileTypeOK, RunTypes
<1> SUFFICES ASSUME NEW r \in Runs PROVE Agrees(r)'
  BY DEF AllAgree
<1>3. CASE worker[r].app = p
  <2>1. worker'[r] = Idle
    BY <1>3 DEF Ends
  <2>2. run'[r].place \in Over
    BY <1>2, <1>3 DEF Ends, Kill, Of, Killed, RunTypes, Over
  <2> QED BY <2>1, <2>2 DEF Agrees, Idle
<1>4. CASE worker[r].app # p
  <2>1. worker'[r] = worker[r] /\ run'[r] = run[r]
    BY <1>4 DEF Ends, Kill, Of
  <2> QED BY <1>1, <2>1 DEF AllAgree, Agrees, Acts, Left, UnchangedFiles
<1> QED BY <1>3, <1>4

LEMMA StopAgrees ==
  ASSUME AllAgree, FileTypeOK, TermSound, NEW R \in SUBSET Runs, Stop(R)
  PROVE  AllAgree'
<1>1. UnchangedFiles
  BY DEF Stop, Cancelled
<1> SUFFICES ASSUME NEW r \in Runs PROVE Agrees(r)'
  BY DEF AllAgree
<1>2. /\ run[r] \in RunTypes /\ worker[r] \in WorkerRecords /\ Well(worker[r])
      /\ Agrees(r)
  BY DEF FileTypeOK, RunTypes, TermSound, AllAgree
<1>3. run'[r].place = run[r].place /\ run'[r].command = run[r].command
      /\ run'[r].total = run[r].total
  BY <1>2 DEF Stop, Cancelled, RunTypes
<1>4. Left(r) => Left(r)'
  BY <1>1, <1>3 DEF Left, UnchangedFiles
<1>5. CASE r \notin R
  <2>1. worker'[r] = worker[r]
    BY <1>5 DEF Stop
  <2> QED BY <1>2, <1>3, <1>4, <2>1 DEF Agrees, Acts
<1>6. CASE r \in R
  <2>1. worker'[r] = Stopped(worker[r])
    BY <1>6 DEF Stop
  <2>2. worker[r].at = "none" => worker'[r].at = "none"
    BY <2>1 DEF Stopped, Idle, Going, Hearing
  <2>3. /\ worker'[r].heading \in {worker[r].heading, "none"}
        /\ worker'[r].at = "acting" <=> worker[r].at = "acting"
        /\ worker'[r].at \notin {"started", "authenticating"}
    BY <1>2, <2>1, StoppedWell
  <2> QED BY <1>2, <1>3, <1>4, <2>2, <2>3 DEF Agrees, Acts
<1> QED BY <1>5, <1>6

LEMMA ScreensAgree ==
  ASSUME AllAgree, FileTypeOK, TermSound, NEW p \in Apps, AppStep(p)
  PROVE  AllAgree'
<1>1. ASSUME UNCHANGED <<worker, fileVars>> PROVE AllAgree'
  BY <1>1 DEF AllAgree, Agrees, Acts, Left, fileVars
<1>2. ASSUME NEW late, NEW n, Pop(p, late, n) PROVE AllAgree'
  <2>1. {r \in Runs : Execution(r) \in RemovedScreens(p, n)} \in SUBSET Runs
    OBVIOUS
  <2> QED BY <1>2, <2>1, EndAgrees, StopAgrees DEF Pop
<1>3. ASSUME NEW late, NEW c, Execute(p, late, c) PROVE AllAgree'
  <2>1. PICK r \in Runs :
          /\ Waiting(r)
          /\ worker' = [worker EXCEPT ![r] = [Idle EXCEPT !.at = "started",
                                     !.heading = "Progress", !.app = p]]
    BY <1>3 DEF Execute
  <2>2. UNCHANGED fileVars
    BY <1>3 DEF Execute
  <2>3. ASSUME NEW s \in Runs PROVE Agrees(s)'
    <3>1. run'[s] = run[s] /\ (Left(s) => Left(s)')
      BY <2>2 DEF fileVars, Left
    <3>2. CASE s # r
      BY <2>1, <3>1, <3>2 DEF AllAgree, Agrees, Acts, TermSound
    <3>3. CASE s = r
      BY <2>1, <3>1, <3>3, Began DEF Waiting, Agrees, Acts, Over, TermSound
    <3> QED BY <3>2, <3>3
  <2> QED BY <2>3 DEF AllAgree
<1>4. CASE ScreenStep(p)
  <2>1. CASE Select(p) \/ OpenSettings(p)
    BY <1>1, <2>1 DEF Select, OpenSettings
  <2>2. CASE ConfirmLeft(p) \/ BackLeft(p)
    BY <1>2, <1>3, <2>2 DEF ConfirmLeft, BackLeft
  <2>3. ASSUME NEW i \in 1..Depth(p), Confirm(p, i) \/ Back(p, i) \/ CloseSettings(p, i)
        PROVE  AllAgree'
    BY <1>1, <1>2, <1>3, <2>3 DEF Confirm, Back, CloseSettings
  <2>4. ASSUME NEW r \in Runs, Return(p, r) PROVE AllAgree'
    BY <1>2, <2>4 DEF Return
  <2> QED BY <1>4, <2>1, <2>2, <2>3, <2>4 DEF ScreenStep
<1>5. CASE Start(p) \/ Save(p) \/ Saved(p)
  BY <1>1, <1>5 DEF Start, Save, Saved
<1>6. CASE Reloaded(p) \/ Gone(p) \/ Dies(p)
  BY <1>1, <1>6, EndAgrees DEF Reloaded, Gone, Dies
<1>7. CASE Quit(p)
  <2>1. Of(p) \in SUBSET Runs
    BY DEF Of
  <2> QED BY <1>7, <2>1, StopAgrees DEF Quit
<1> QED BY <1>4, <1>5, <1>6, <1>7 DEF AppStep


LEMMA WorkersAgree ==
  ASSUME AllAgree, FileSound, FileInv, TermSound, NEW r \in Runs, WorkerStep(r)
  PROVE  AllAgree'
<1>1. worker[r] \in WorkerRecords /\ Well(worker[r]) /\ Agrees(r)
  BY DEF TermSound, AllAgree
<1>2. ASSUME NEW at, NEW heading, Follows(r, at, heading),
             Allowed(worker[r], at, heading)
      PROVE  /\ \A s \in Runs \ {r} : worker'[s] = worker[s]
             /\ worker'[r].at = at /\ at # "none" /\ worker[r].at # "none"
             /\ worker'[r].heading = IF worker[r].told THEN worker[r].heading
                                     ELSE heading
  <2>1. Advanced(worker[r], at, heading).at = at
        /\ Advanced(worker[r], at, heading).heading
             = IF worker[r].told THEN worker[r].heading ELSE heading
    BY <1>1, <1>2, AdvancedWell
  <2>2. at # "none" /\ worker[r].at # "none"
    BY <1>2 DEF Allowed, Going, Hearing
  <2> QED BY <1>2, <2>1, <2>2 DEF Follows, TermSound
<1>3. ASSUME UNCHANGED fileVars, NEW at, NEW heading, Follows(r, at, heading),
             Allowed(worker[r], at, heading),
             run[r].place \notin Over => at = "acting",
             heading = "Completed" => run[r].place = "returned",
             heading = "Stopped" => run[r].place \in {"none", "raised"},
             at = "authenticating" => run[r].place = "none"
      PROVE  AllAgree'
  <2>1. \A s \in Runs : run'[s] = run[s] /\ (Left(s) => Left(s)')
    BY <1>3 DEF fileVars, Left
  <2>2. /\ \A s \in Runs \ {r} : worker'[s] = worker[s]
        /\ worker'[r].at = at /\ at # "none" /\ worker[r].at # "none"
        /\ worker'[r].heading = IF worker[r].told THEN worker[r].heading ELSE heading
    BY <1>2, <1>3
  <2>3. \A s \in Runs \ {r} : Agrees(s)'
    BY <2>1, <2>2 DEF AllAgree, Agrees, Acts
  <2>4. at # "started"
    BY <1>3 DEF Allowed
  <2>5. Agrees(r)'
    BY <1>1, <1>3, <2>1, <2>2, <2>4 DEF Agrees, Acts
  <2> QED BY <2>3, <2>5 DEF AllAgree
<1>4. ASSUME Step(r), worker[r].at \in {"authenticating", "acting"},
             \A s \in Runs \ {r} : worker'[s] = worker[s],
             worker'[r].at = "acting", worker'[r].heading \in {"none", "Progress"}
      PROVE  AllAgree'
  <2>1. run[r].place = "returned" => Left(r)
    BY <1>1, <1>4 DEF Agrees
  <2>2. /\ \A s \in Runs \ {r} :
             run'[s] = run[s] /\ (run[s].place = "returned" /\ Left(s) => Left(s)')
        /\ run'[r].place = "returned" => Left(r)'
    BY <1>4, <2>1, WorkerSteps
  <2>3. \A s \in Runs \ {r} : Agrees(s)'
    BY <1>4, <2>2 DEF AllAgree, Agrees, Acts
  <2>4. Agrees(r)'
    BY <1>4, <2>2 DEF Agrees, Acts
  <2> QED BY <2>3, <2>4 DEF AllAgree
<1>5. /\ worker[r].at \in {"started", "authenticating"} => run[r].place = "none"
      /\ worker[r].at # "acting" => run[r].place \in Over
      /\ {"none", "returned", "raised"} \subseteq Over
  BY <1>1 DEF Agrees, Acts, Over
<1>6. CASE worker[r].at = "started"
  <2>1. \/ Follows(r, "authenticating", "Progress")
        \/ Follows(r, "done", "Stopped")
    BY <1>6, StepKinds DEF Acts
  <2>2. UNCHANGED fileVars
    BY <1>6, StepKinds DEF Acts
  <2>3. Allowed(worker[r], "authenticating", "Progress")
        /\ Allowed(worker[r], "done", "Stopped")
    BY <1>6 DEF Allowed, Going, Hearing
  <2>4. CASE Follows(r, "authenticating", "Progress")
    BY <1>3, <1>5, <1>6, <2>2, <2>3, <2>4
  <2>5. CASE Follows(r, "done", "Stopped")
    BY <1>3, <1>5, <1>6, <2>2, <2>3, <2>5
  <2> QED BY <2>1, <2>4, <2>5
<1>7. CASE worker[r].at = "authenticating"
  <2>1. /\ Allowed(worker[r], "acting", "Progress")
        /\ Allowed(worker[r], "closing", "Stopped")
    BY <1>7 DEF Allowed, Said, Going, Hearing
  <2>2. CASE Follows(r, "acting", "Progress") /\ Begin(r)
    <3>1. ~worker[r].told /\ worker[r].heading = "Progress"
      BY <1>1, <1>7 DEF Well
    <3> QED BY <1>2, <1>4, <1>7, <2>1, <2>2, <3>1 DEF Step
  <2>3. CASE Follows(r, "closing", "Stopped") /\ UNCHANGED fileVars
    BY <1>3, <1>5, <1>7, <2>1, <2>3
  <2> QED BY <1>7, <2>2, <2>3, StepKinds DEF Acts
<1>8. CASE Acts(r)
  <2>1. worker[r].at = "acting" /\ worker[r].heading = "Progress"
    BY <1>1, <1>8 DEF Acts, Well
  <2>2. /\ Allowed(worker[r], "closing", "Completed")
        /\ Allowed(worker[r], "closing", "Stopped")
    BY <2>1 DEF Allowed, Said, Going, Hearing
  <2>3. CASE RunStep(r) /\ UNCHANGED <<app, worker, ownVars, lateKeys>>
    BY <1>4, <2>1, <2>3 DEF Step
  <2>4. CASE /\ run[r].place = "returned" /\ Follows(r, "closing", "Completed")
             /\ UNCHANGED fileVars
    BY <1>3, <1>5, <2>2, <2>4
  <2>5. CASE /\ run[r].place = "raised" /\ Follows(r, "closing", "Stopped")
             /\ UNCHANGED fileVars
    BY <1>3, <1>5, <2>2, <2>5
  <2> QED BY <2>1, <2>3, <2>4, <2>5, StepKinds
<1>9. CASE worker[r].at = "closing"
  <2>1. CASE Follows(r, "done", worker[r].heading) /\ UNCHANGED fileVars
    <3>1. Allowed(worker[r], "done", worker[r].heading)
      BY <1>9 DEF Allowed, Going, Hearing
    <3>2. /\ worker[r].heading = "Completed" => run[r].place = "returned"
          /\ worker[r].heading = "Stopped" => run[r].place \in {"none", "raised"}
      BY <1>1 DEF Agrees
    <3> QED BY <1>3, <1>5, <1>9, <2>1, <3>1, <3>2
  <2>2. CASE worker[r].app \in Apps /\ Ends(worker[r].app)
    BY <2>2, EndAgrees DEF FileSound
  <2> QED BY <1>9, <2>1, <2>2, StepKinds DEF Acts
<1> QED BY <1>6, <1>7, <1>8, <1>9, StepKinds

LEMMA AgreementHolds == TermSpec => [](AllAgree /\ TermSound /\ FileSound)
<1>1. TermInit => AllAgree /\ TermSound /\ FileSound
  <2> SUFFICES ASSUME TermInit PROVE AllAgree /\ TermSound /\ FileSound
    OBVIOUS
  <2>1. TermSound /\ FileSound
    BY TermSoundFirst, FileSoundFirst DEF TermInit
  <2>2. \A r \in Runs : run[r].place = "none" /\ worker[r] = Idle
    <3>1. PICK c \in [Runs -> Commands] : run = [r \in Runs |-> Fresh(c[r])]
      BY DEF TermInit, FileInit
    <3> QED BY <3>1 DEF TermInit, Fresh
  <2> QED BY <2>1, <2>2 DEF AllAgree, Agrees, Idle, Over
<1>2. ASSUME AllAgree, TermSound, FileSound, FileInv, [TermNext]_termVars
      PROVE  AllAgree' /\ TermSound' /\ FileSound'
  <2>1. [FileNext]_fileVars
    BY <1>2, RunMoves DEF FileNext, Stops
  <2>2. TermSound' /\ FileSound'
    BY <1>2, <2>1, FileSoundKept, TermMoves DEF FileSound
  <2>3. CASE UNCHANGED <<worker, fileVars>>
    BY <1>2, <2>2, <2>3 DEF AllAgree, Agrees, Acts, Left, fileVars
  <2>4. CASE PowerFails
    <3>1. \A r \in Runs : run'[r].place \in Over
      BY <1>2, <2>4, PowerLossKills DEF PowerFails, FileSound
    <3>2. \A r \in Runs : worker'[r] = Idle
      BY <2>4 DEF PowerFails
    <3> QED BY <2>2, <3>1, <3>2 DEF AllAgree, Agrees, Idle
  <2>5. CASE Written
    BY <1>2, <2>2, <2>5 DEF Written, Commit, AllAgree, Agrees, Acts, Left
  <2> QED BY <1>2, <2>2, <2>3, <2>4, <2>5, ScreensAgree, WorkersAgree
          DEF TermNext, termVars, FileSound
<1> QED BY <1>1, <1>2, TerminalsRunActions, FileInvHolds, PTL DEF TermSpec

(* What the screen says of an action is what it did: whatever fails, in    *)
(* whatever order processes move, and whichever of them replaced what.     *)
THEOREM ScreensTellTheTruth == TermSpec => []ShownOutcomeIsTrue
<1>1. AllAgree /\ TermSound => ShownOutcomeIsTrue
  <2> SUFFICES ASSUME AllAgree, TermSound, NEW r \in Runs
               PROVE  /\ worker[r].heading = "Completed" =>
                           /\ run[r].place = "returned"
                           /\ \/ r \in superseded
                              \/ visible[run[r].command] = Result(r, 1..run[r].total)
                      /\ worker[r].heading = "Stopped" => run[r].place \in {"none", "raised"}
                      /\ Finished(r) /\ ~worker[r].told =>
                           worker[r].heading \in {"Completed", "Stopped"}
    BY DEF ShownOutcomeIsTrue
  <2>1. Agrees(r) /\ Well(worker[r])
    BY DEF AllAgree, TermSound
  <2>2. worker[r].at = "none" => worker[r].heading = "none"
    BY <2>1 DEF Well, Idle
  <2> QED BY <2>1, <2>2 DEF Agrees, Left, Well, Said, Finished
<1> QED BY <1>1, AgreementHolds, PTL


(***************************************************************************)
(* Screens and workers.  What is known of the screens of one process: what *)
(* they execute, and, while no key was handled late, what lies on what: d  *)
(* screens, and perhaps the settings on top of them.                       *)
(***************************************************************************)
Tidy(p, d) ==
  LET s == app[p].stack
  IN  /\ Len(s) = d \/ (Len(s) = d + 1 /\ s[d + 1] = Settings)
      /\ s[1] = Menu
      /\ d > 1 => \E c \in Commands : \E k \in 1..Steps[c] : s[2] = Question(c, k)
      /\ d = 3 => \E r \in Runs :
                    /\ s[3] = Execution(r)
                    /\ s[2] = Question(run[r].command, Steps[run[r].command])
      /\ \A r \in Runs : worker[r].app = p /\ worker[r].at \in Going =>
                           d = 3 /\ s[3] = Execution(r)

IsTidy(p) == app[p].life = "up" /\ ~app[p].rushed => \E d \in 1..3 : Tidy(p, d)

Placed(p) ==
  /\ \A i : \A r \in Runs : Executing(p, i, r) =>
       worker[r].app = p /\ worker[r].at # "none" /\ ~worker[r].told
  /\ \A i, j : \A r \in Runs : Executing(p, i, r) /\ Executing(p, j, r) => i = j
  /\ \A r \in Runs : worker[r].app = p /\ worker[r].at \in Going /\ ~worker[r].told =>
       \E i : Executing(p, i, r)
  /\ IsTidy(p)

AllPlaced == \A p \in Apps : Placed(p)
CommandsStay == \A r \in Runs : run'[r].command = run[r].command

LEMMA CommandsAreKept ==
  ASSUME FileSound, [FileNext]_fileVars
  PROVE  CommandsStay
<1>1. ASSUME NEW r \in Runs, Step(r) PROVE CommandsStay
  BY <1>1, StepMoves DEF FileSound, Moved, CommandsStay
<1>2. CASE Stops
  BY <1>2, StopMoves DEF FileSound, Moved, CommandsStay
<1>3. CASE PowerLoss
  BY <1>3, PowerLossKills DEF FileSound, Moved, CommandsStay
<1>4. CASE UNCHANGED fileVars \/ \E c \in Commands : Commit(c)
  BY <1>4 DEF fileVars, Commit, CommandsStay
<1> QED BY <1>1, <1>2, <1>3, <1>4 DEF FileNext, Step, Stops

(* The screens of a process stay, and its workers have them.               *)
Still(p, w, v) ==
  /\ w.app = p /\ w.at # "none" /\ ~w.told => v.app = p /\ v.at # "none" /\ ~v.told
  /\ v.app = p /\ v.at \in Going =>
       w.app = p /\ w.at \in Going /\ (~v.told => ~w.told)

LEMMA PlaceKept ==
  ASSUME NEW p \in Apps, Placed(p), app'[p].stack = app[p].stack,
         app'[p].life = "up" => app[p].life = "up",
         app'[p].rushed = app[p].rushed,
         CommandsStay, \A r \in Runs : Still(p, worker[r], worker'[r])
  PROVE  Placed(p)'
<1>1. \A i, r : Executing(p, i, r)' <=> Executing(p, i, r)
  BY DEF Executing, Depth
<1>2. \A d : Tidy(p, d) => Tidy(p, d)'
  BY DEF Tidy, Still, CommandsStay
<1>3. IsTidy(p)'
  BY <1>2 DEF Placed, IsTidy
<1> QED BY <1>1, <1>3 DEF Placed, Still

LEMMA PlaceMoved ==
  ASSUME NEW p \in Apps, Placed(p), worker' = worker,
         \A i : \A r \in Runs : Executing(p, i, r)' <=> Executing(p, i, r), IsTidy(p)'
  PROVE  Placed(p)'
BY DEF Placed

LEMMA PlaceLeft ==
  ASSUME NEW p \in Apps, \A r \in Runs : worker'[r].app = p => worker'[r].at \notin Going,
         app'[p].stack = <<>>, app'[p].life # "up"
  PROVE  Placed(p)'
<1>1. \A i, r : ~Executing(p, i, r)'
  BY DEF Executing, Depth
<1> QED BY <1>1 DEF Placed, IsTidy

(* The other processes, whatever one does.                                 *)
OthersKept(p) ==
  /\ \A q \in Apps \ {p} : app'[q] = app[q]
  /\ \A r \in Runs : \/ worker'[r] = worker[r]
                     \/ worker[r].app \in {p, Nil} /\ worker'[r].app \in {p, Nil}

LEMMA OthersPlaced ==
  ASSUME AllPlaced, NEW p \in Apps, OthersKept(p), CommandsStay,
         NEW q \in Apps \ {p}
  PROVE  Placed(q)'
<1>1. \A r \in Runs : Still(q, worker[r], worker'[r])
  BY NilAssumption DEF OthersKept, Still
<1> QED BY <1>1, PlaceKept DEF AllPlaced, OthersKept

LEMMA EndPlaced ==
  ASSUME AllPlaced, TermSound, NEW p \in Apps, Ends(p), CommandsStay
  PROVE  AllPlaced'
<1>1. OthersKept(p)
  <2>1. Idle.app = Nil
    BY DEF Idle
  <2> QED BY <2>1 DEF Ends, OthersKept, TermSound
<1>2. Placed(p)'
  <2>1. /\ app'[p].stack = <<>> /\ app'[p].life # "up"
        /\ \A r \in Runs : worker'[r].app = p => worker'[r].at \notin Going
    BY NilAssumption DEF Ends, TermSound, Down, Idle, Going, Hearing
  <2> QED BY <2>1, PlaceLeft
<1> QED BY <1>1, <1>2, OthersPlaced DEF AllPlaced


(* One process: what it shows when no key was late, what it removes, what  *)
(* it begins to execute.                                                   *)
LEMMA TidyReads ==
  ASSUME TermSound, NEW p \in Apps, NEW d \in 1..3, Tidy(p, d)
  PROVE  /\ Depth(p) \in {d, d + 1} /\ Depth(p) \in Nat
         /\ Depth(p) = d + 1 <=> Sees(p, "settings")
         /\ Sees(p, "entry") => d = 1 /\ Depth(p) = 1
         /\ Sees(p, "param") => d = 2 /\ Depth(p) = 2
         /\ Sees(p, "execution") => d = 3 /\ Depth(p) = 3
         /\ d = 1 => \A r \in Runs : worker[r].app = p => worker[r].at \notin Going
<1> DEFINE s == app[p].stack
<1>1. s \in Seq(Screens) /\ Len(s) \in Nat /\ Len(s) = Depth(p)
  BY Stacks DEF Depth
<1>2. /\ s[1].kind = "entry"
      /\ d > 1 => s[2].kind = "param"
      /\ d = 3 => s[3].kind = "execution"
      /\ Len(s) = d + 1 => s[d + 1].kind = "settings"
      /\ Len(s) \in {d, d + 1}
  BY ScreenKinds DEF Tidy
<1> HIDE DEF s
<1>3. \A kind : Sees(p, kind) <=> s[Len(s)].kind = kind
  BY <1>1, <1>2 DEF Sees, Shows, s
<1>4. CASE d = 1
  BY <1>1, <1>2, <1>3, <1>4 DEF Tidy
<1>5. CASE d = 2
  BY <1>1, <1>2, <1>3, <1>5
<1>6. CASE d = 3
  BY <1>1, <1>2, <1>3, <1>6
<1> QED BY <1>4, <1>5, <1>6

LEMMA PopPlaced ==
  ASSUME AllPlaced, TermSound, NEW p \in Apps, NEW late \in BOOLEAN, NEW n \in 1..2,
         app[p].life = "up", Pop(p, late, n), CommandsStay,
         \A d \in 1..3 : ~app[p].rushed /\ ~late /\ Tidy(p, d) /\ n <= Depth(p) =>
            \/ n = 1 /\ (d = 2 \/ Depth(p) = d + 1)
            \/ /\ n = 2 /\ d = 3 /\ Depth(p) = 3
               /\ \A r \in Runs : worker[r].app = p => worker[r].at \notin Going
  PROVE  AllPlaced'
<1>1. CASE n > Depth(p)
  <2>1. Ends(p)
    BY <1>1, Stacks DEF Pop
  <2> QED BY <2>1, EndPlaced
<1>2. CASE ~(n > Depth(p))
  <2> DEFINE s == app[p].stack
             t == Sub(s, n)
             R == {r \in Runs : Execution(r) \in RemovedScreens(p, n)}
  <2>1. n <= Depth(p) /\ Depth(p) = Len(s) /\ s \in Seq(Screens) /\ Len(s) \in Nat
    BY <1>2, Stacks DEF Depth
  <2>2. /\ Len(t) = Len(s) - n /\ \A i \in 1..(Len(s) - n) : t[i] = s[i]
        /\ Restacked(p, t, late)
    BY <2>1, PopMoves, StackKept
  <2>3. Stop(R)
    BY <1>2 DEF Pop
  <2>4. \A r \in Runs : worker'[r] = IF r \in R THEN Stopped(worker[r]) ELSE worker[r]
    BY <2>3 DEF Stop
  <2>5. /\ \A q \in Apps \ {p} : app'[q] = app[q]
        /\ app'[p].stack = t /\ app'[p].rushed = (app[p].rushed \/ late)
    BY <2>2 DEF Restacked, TermSound
  <2>6. Placed(p)
    BY DEF AllPlaced
  <2>7. \A r \in Runs : r \in R <=> \E j \in (Len(s) - n + 1)..Len(s) : Executing(p, j, r)
    <3>1. \A j : j \in 1..Len(s) /\ j > Len(s) - n <=> j \in (Len(s) - n + 1)..Len(s)
      BY <2>1
    <3> QED BY <2>1, <3>1 DEF RemovedScreens, Executing
  <2>8. \A i : \A r \in Runs :
          Executing(p, i, r)' <=> i \in 1..(Len(s) - n) /\ Executing(p, i, r)
    <3>1. \A i \in 1..(Len(s) - n) : i \in 1..Len(s)
      BY <2>1
    <3>2. Depth(p)' = Len(s) - n
      BY <2>2, <2>5 DEF Depth
    <3> QED BY <2>1, <2>2, <2>5, <3>1, <3>2 DEF Executing
  <2> HIDE DEF R, t
  <2>9. \A r \in R : r \in Runs /\ worker[r].app = p
    BY <2>6, <2>7 DEF Placed, R
  <2>10. \A r \in R : /\ worker'[r].app \in {p, Nil}
                      /\ worker'[r].at \in Going => worker'[r].told
                                                   /\ worker[r].at \in Going
    <3> SUFFICES ASSUME NEW r \in R
                 PROVE  /\ worker'[r].app \in {p, Nil}
                        /\ worker'[r].at \in Going =>
                             worker'[r].told /\ worker[r].at \in Going
      OBVIOUS
    <3>1. worker[r] \in WorkerRecords /\ Well(worker[r]) /\ worker'[r] = Stopped(worker[r])
      BY <2>4, <2>9 DEF TermSound
    <3>2. worker[r].at \notin Going => worker'[r].at \notin Going
      BY <3>1 DEF Stopped, Idle, Going, Hearing
    <3> QED BY <2>9, <3>1, <3>2, StoppedWell
  <2>11. OthersKept(p)
    BY <2>4, <2>5, <2>9, <2>10 DEF OthersKept
  <2>12. \A r \in Runs : worker'[r].app = p /\ worker'[r].at \in Going =>
           /\ worker[r].app = p /\ worker[r].at \in Going
           /\ ~worker'[r].told => r \notin R /\ worker'[r] = worker[r]
    BY <2>4, <2>9, <2>10
  <2>13. IsTidy(p)'
    <3> SUFFICES ASSUME app'[p].life = "up", ~app'[p].rushed
                 PROVE  \E d \in 1..3 : Tidy(p, d)'
      BY DEF IsTidy
    <3>1. ~app[p].rushed /\ ~late
      BY <2>5, Stacks DEF AppRecords
    <3>2. PICK d \in 1..3 : Tidy(p, d)
      BY <2>6, <3>1 DEF Placed, IsTidy
    <3>3. \/ n = 1 /\ (d = 2 \/ Depth(p) = d + 1)
          \/ /\ n = 2 /\ d = 3 /\ Depth(p) = 3
             /\ \A r \in Runs : worker[r].app = p => worker[r].at \notin Going
      BY <2>1, <3>1, <3>2
    <3>4. Len(s) = d \/ Len(s) = d + 1
      BY <3>2 DEF Tidy
    <3>5. CASE Depth(p) = d + 1 /\ n = 1
      <4>1. Len(t) = d /\ \A i \in 1..d : t[i] = s[i]
        BY <2>1, <2>2, <3>5
      <4>2. Tidy(p, d)'
        BY <2>5, <2>12, <3>2, <4>1 DEF Tidy, CommandsStay
      <4> QED BY <4>2
    <3>6. CASE d = 2 /\ n = 1 /\ Depth(p) = d
      <4>1. Len(t) = 1 /\ t[1] = s[1]
        BY <2>1, <2>2, <3>6
      <4>2. \A r \in Runs : worker[r].app = p => worker[r].at \notin Going
        BY <3>2, <3>6 DEF Tidy
      <4>3. Tidy(p, 1)'
        BY <2>5, <2>12, <3>2, <4>1, <4>2 DEF Tidy
      <4> QED BY <4>3
    <3>7. CASE n = 2 /\ d = 3 /\ Depth(p) = 3
      <4>1. Len(t) = 1 /\ t[1] = s[1]
        BY <2>1, <2>2, <3>7
      <4>2. \A r \in Runs : worker[r].app = p => worker[r].at \notin Going
        BY <3>3, <3>7
      <4>3. Tidy(p, 1)'
        BY <2>5, <2>12, <3>2, <4>1, <4>2 DEF Tidy
      <4> QED BY <4>3
    <3> QED BY <2>1, <3>3, <3>4, <3>5, <3>6, <3>7
  <2>14. Placed(p)'
    <3>1. ASSUME NEW i, NEW r \in Runs, Executing(p, i, r)'
          PROVE  worker'[r] = worker[r] /\ Executing(p, i, r)
      <4>1. i \in 1..(Len(s) - n) /\ Executing(p, i, r)
        BY <2>8, <3>1
      <4>2. i \notin (Len(s) - n + 1)..Len(s)
        BY <2>1, <4>1
      <4>3. r \notin R
        BY <2>6, <2>7, <4>1, <4>2 DEF Placed
      <4> QED BY <2>4, <4>1, <4>3
    <3>2. ASSUME NEW r \in Runs, worker'[r].app = p, worker'[r].at \in Going,
                 ~worker'[r].told
          PROVE  \E i : Executing(p, i, r)'
      <4>1. r \notin R /\ worker'[r] = worker[r]
        BY <2>12, <3>2
      <4>2. PICK i : Executing(p, i, r)
        BY <2>6, <3>2, <4>1 DEF Placed
      <4>3. i \in 1..Len(s) /\ i \notin (Len(s) - n + 1)..Len(s)
        BY <2>1, <2>7, <4>1, <4>2 DEF Executing
      <4>4. i \in 1..(Len(s) - n)
        BY <2>1, <4>3
      <4> QED BY <2>8, <4>2, <4>4
    <3> QED BY <2>6, <2>13, <3>1, <3>2 DEF Placed
  <2> QED BY <2>11, <2>14, OthersPlaced DEF AllPlaced
<1> QED BY <1>1, <1>2


LEMMA ExecutePlaced ==
  ASSUME AllPlaced, TermSound, NEW p \in Apps, NEW late \in BOOLEAN,
         NEW c \in Commands, app[p].life = "up", Execute(p, late, c), CommandsStay,
         ~late => Depth(p) > 0 /\ app[p].stack[Depth(p)] = Question(c, Steps[c])
  PROVE  AllPlaced'
<1> DEFINE s == app[p].stack
           w == [Idle EXCEPT !.at = "started", !.heading = "Progress", !.app = p]
<1>1. PICK r \in Runs :
        /\ run[r].command = c /\ Waiting(r) /\ Push(p, late, Execution(r))
        /\ worker' = [worker EXCEPT ![r] = w]
  BY DEF Execute
<1> DEFINE t == Append(s, Execution(r))
<1>2. s \in Seq(Screens) /\ Len(s) \in Nat /\ Depth(p) = Len(s) /\ Execution(r) \in Screens
  BY Stacks, ScreenKinds DEF Depth
<1>3. /\ Len(t) = Len(s) + 1 /\ t[Len(s) + 1] = Execution(r)
      /\ \A i \in 1..Len(s) : t[i] = s[i]
  BY <1>2, StackGrows
<1>4. Restacked(p, t, late)
  BY <1>1, <1>2, PushMoves
<1>5. /\ \A q \in Apps \ {p} : app'[q] = app[q]
      /\ app'[p].stack = t /\ app'[p].rushed = (app[p].rushed \/ late)
  BY <1>4 DEF Restacked, TermSound
<1>6. /\ w.app = p /\ w.at = "started" /\ ~w.told
      /\ worker[r] = Idle /\ Idle.app = Nil /\ Idle.at = "none"
  BY <1>1, Began DEF Waiting, Idle
<1> HIDE DEF w, t
<1>7. worker'[r] = w /\ \A x \in Runs \ {r} : worker'[x] = worker[x]
  BY <1>1 DEF TermSound
<1>8. OthersKept(p)
  BY <1>5, <1>6, <1>7 DEF OthersKept
<1>9. Placed(p) /\ \A i : ~Executing(p, i, r)
  BY <1>6 DEF AllPlaced, Placed
<1>10. \A i : \A x \in Runs :
         Executing(p, i, x)' <=> Executing(p, i, x) \/ (i = Len(s) + 1 /\ x = r)
  <2>1. \A x \in Runs : Execution(x) = Execution(r) => x = r
    BY ScreenKinds
  <2>2. Depth(p)' = Len(s) + 1
    BY <1>3, <1>5 DEF Depth
  <2>3. \A i : i \in 1..(Len(s) + 1) <=> i \in 1..Len(s) \/ i = Len(s) + 1
    BY <1>2
  <2>4. Len(s) + 1 \notin 1..Len(s)
    BY <1>2
  <2> QED BY <1>2, <1>3, <1>5, <2>1, <2>2, <2>3, <2>4 DEF Executing
<1>11. IsTidy(p)'
  <2> SUFFICES ASSUME app'[p].life = "up", ~app'[p].rushed
               PROVE  \E d \in 1..3 : Tidy(p, d)'
    BY DEF IsTidy
  <2>1. ~app[p].rushed /\ ~late
    BY <1>5, Stacks DEF AppRecords
  <2>2. PICK d \in 1..3 : Tidy(p, d)
    BY <1>9, <2>1 DEF Placed, IsTidy
  <2>3. s[Depth(p)] = Question(c, Steps[c]) /\ Sees(p, "param")
    BY <1>2, <2>1, ScreenKinds DEF Sees, Shows
  <2>4. d = 2 /\ Len(s) = 2 /\ s[2] = Question(c, Steps[c])
    BY <1>2, <2>2, <2>3, TidyReads
  <2>5. Len(t) = 3 /\ t[1] = s[1] /\ t[2] = s[2] /\ t[3] = Execution(r)
    BY <1>3, <2>4
  <2>6. \A x \in Runs : worker'[x].app = p /\ worker'[x].at \in Going => x = r
    BY <1>7, <2>2, <2>4 DEF Tidy
  <2>7. run'[r].command = c
    BY <1>1 DEF CommandsStay
  <2>8. Tidy(p, 3)'
    BY <1>5, <2>2, <2>4, <2>5, <2>6, <2>7 DEF Tidy
  <2> QED BY <2>8
<1>12. Placed(p)'
  <2>1. ASSUME NEW i, NEW x \in Runs, Executing(p, i, x)'
        PROVE  worker'[x].app = p /\ worker'[x].at # "none" /\ ~worker'[x].told
    BY <1>6, <1>7, <1>9, <1>10, <2>1 DEF Placed
  <2>2. ASSUME NEW i, NEW j, NEW x \in Runs, Executing(p, i, x)', Executing(p, j, x)'
        PROVE  i = j
    BY <1>9, <1>10, <2>2 DEF Placed
  <2>3. ASSUME NEW x \in Runs, worker'[x].app = p, worker'[x].at \in Going,
               ~worker'[x].told
        PROVE  \E i : Executing(p, i, x)'
    BY <1>7, <1>9, <1>10, <2>3 DEF Placed
  <2> QED BY <1>11, <2>1, <2>2, <2>3 DEF Placed
<1> QED BY <1>8, <1>12, OthersPlaced DEF AllPlaced

(* Screens that execute nothing come, or ask another question.             *)
LEMMA PushPlaced ==
  ASSUME AllPlaced, TermSound, NEW p \in Apps, NEW late \in BOOLEAN,
         app[p].life = "up", worker' = worker, CommandsStay,
         NEW x \in Screens, x.kind # "execution", Push(p, late, x),
         \/ late
         \/ Sees(p, "entry") /\ \E c \in Commands : x = Question(c, 1)
         \/ ~Sees(p, "settings") /\ x = Settings
  PROVE  AllPlaced'
<1> DEFINE s == app[p].stack
           t == Append(s, x)
<1>1. s \in Seq(Screens) /\ Len(s) \in Nat /\ Depth(p) = Len(s)
  BY Stacks DEF Depth
<1>2. /\ Len(t) = Len(s) + 1 /\ t[Len(s) + 1] = x
      /\ \A i \in 1..Len(s) : t[i] = s[i]
  BY <1>1, StackGrows
<1>3. Restacked(p, t, late)
  BY PushMoves
<1>4. /\ \A q \in Apps \ {p} : app'[q] = app[q]
      /\ app'[p].stack = t /\ app'[p].rushed = (app[p].rushed \/ late)
  BY <1>3 DEF Restacked, TermSound
<1> HIDE DEF t
<1>5. \A i : \A r \in Runs : Executing(p, i, r)' <=> Executing(p, i, r)
  <2>1. Depth(p)' = Len(s) + 1
    BY <1>2, <1>4 DEF Depth
  <2>2. \A i : i \in 1..(Len(s) + 1) <=> i \in 1..Len(s) \/ i = Len(s) + 1
    BY <1>1
  <2>3. \A r \in Runs : x # Execution(r)
    BY ScreenKinds
  <2>4. Len(s) + 1 \notin 1..Len(s)
    BY <1>1
  <2> QED BY <1>1, <1>2, <1>4, <2>1, <2>2, <2>3, <2>4 DEF Executing
<1>6. IsTidy(p)'
  <2> SUFFICES ASSUME app'[p].life = "up", ~app'[p].rushed
               PROVE  \E d \in 1..3 : Tidy(p, d)'
    BY DEF IsTidy
  <2>1. ~app[p].rushed /\ ~late
    BY <1>4, Stacks DEF AppRecords
  <2>2. PICK d \in 1..3 : Tidy(p, d)
    BY <2>1 DEF AllPlaced, Placed, IsTidy
  <2>3. CASE Sees(p, "entry") /\ \E c \in Commands : x = Question(c, 1)
    <3>1. d = 1 /\ Len(s) = 1
          /\ \A r \in Runs : worker[r].app = p => worker[r].at \notin Going
      BY <1>1, <2>2, <2>3, TidyReads
    <3>2. Len(t) = 2 /\ t[1] = s[1] /\ t[2] = x
      BY <1>2, <3>1
    <3>3. PICK c \in Commands : x = Question(c, 1) /\ 1 \in 1..Steps[c]
      BY <2>3, StepsAssumption
    <3>4. Tidy(p, 2)'
      BY <1>4, <2>2, <3>1, <3>2, <3>3 DEF Tidy
    <3> QED BY <3>4
  <2>4. CASE ~Sees(p, "settings") /\ x = Settings
    <3>1. Len(s) = d
      BY <1>1, <2>2, <2>4, TidyReads
    <3>2. /\ Len(t) = d + 1 /\ t[d + 1] = Settings
          /\ \A i \in 1..d : t[i] = s[i]
      BY <1>2, <2>4, <3>1
    <3>3. Tidy(p, d)'
      BY <1>4, <2>2, <3>2 DEF Tidy, CommandsStay
    <3> QED BY <3>3
  <2> QED BY <2>1, <2>3, <2>4
<1>7. OthersKept(p)
  BY <1>4 DEF OthersKept
<1>8. Placed(p)'
  BY <1>5, <1>6, PlaceMoved DEF AllPlaced
<1> QED BY <1>7, <1>8, OthersPlaced DEF AllPlaced

LEMMA AnswerPlaced ==
  ASSUME AllPlaced, TermSound, NEW p \in Apps, NEW late \in BOOLEAN,
         app[p].life = "up", worker' = worker, CommandsStay,
         NEW i \in 1..Depth(p), NEW k \in Nat, app[p].stack[i].kind = "param",
         Answers(p, i, k, late),
         ~late => i = Depth(p),
         ~app[p].rushed /\ ~late => k \in 1..Steps[app[p].stack[i].of]
  PROVE  AllPlaced'
<1> DEFINE s == app[p].stack
           c == s[i].of
<1>1. /\ s \in Seq(Screens) /\ Len(s) \in Nat /\ Depth(p) = Len(s)
      /\ s[i] \in Screens /\ c \in Commands
  BY Stacks, ScreenKinds DEF Depth
<1>2. PICK t \in Seq(Screens) :
        Restacked(p, t, late) /\ Answered(t, s, i, Question(c, k))
  BY AnswerMoves
<1>3. /\ \A q \in Apps \ {p} : app'[q] = app[q]
      /\ app'[p].stack = t /\ app'[p].rushed = (app[p].rushed \/ late)
  BY <1>2 DEF Restacked, TermSound
<1>4. Len(t) = Len(s) /\ t[i] = Question(c, k)
      /\ \A j \in 1..Len(s) : j # i => t[j] = s[j]
  BY <1>1, <1>2 DEF Answered
<1>5. \A j : \A r \in Runs : Executing(p, j, r)' <=> Executing(p, j, r)
  <2>1. \A r \in Runs : s[i] # Execution(r) /\ t[i] # Execution(r)
    BY <1>4, ScreenKinds
  <2> QED BY <1>1, <1>3, <1>4, <2>1 DEF Executing, Depth
<1>6. IsTidy(p)'
  <2> SUFFICES ASSUME app'[p].life = "up", ~app'[p].rushed
               PROVE  \E d \in 1..3 : Tidy(p, d)'
    BY DEF IsTidy
  <2>1. ~app[p].rushed /\ ~late
    BY <1>3, Stacks DEF AppRecords
  <2>2. PICK d \in 1..3 : Tidy(p, d)
    BY <2>1 DEF AllPlaced, Placed, IsTidy
  <2>3. Sees(p, "param") /\ i = Len(s) /\ k \in 1..Steps[c]
    BY <1>1, <2>1 DEF Sees, Shows
  <2>4. d = 2 /\ Len(s) = 2
    BY <1>1, <2>2, <2>3, TidyReads
  <2>5. Len(t) = 2 /\ t[1] = s[1] /\ t[2] = Question(c, k)
    BY <1>4, <2>3, <2>4
  <2> HIDE DEF c
  <2>6. \E e \in Commands : \E m \in 1..Steps[e] : t[2] = Question(e, m)
    BY <1>1, <2>3, <2>5
  <2>7. Tidy(p, 2)'
    BY <1>3, <2>2, <2>4, <2>5, <2>6 DEF Tidy
  <2> QED BY <2>7
<1>7. OthersKept(p)
  BY <1>3 DEF OthersKept
<1>8. Placed(p)'
  BY <1>5, <1>6, PlaceMoved DEF AllPlaced
<1> QED BY <1>7, <1>8, OthersPlaced DEF AllPlaced


LEMMA ScreensPlaced ==
  ASSUME AllPlaced, TermSound, FileTypeOK, NEW p \in Apps, ScreenStep(p), CommandsStay
  PROVE  AllPlaced'
<1> DEFINE s == app[p].stack
<1>0. s \in Seq(Screens) /\ Depth(p) \in Nat /\ Depth(p) = Len(s)
  BY Stacks DEF Depth
<1>1. ASSUME NEW d \in 1..3, Tidy(p, d)
      PROVE  /\ Sees(p, "entry") => d = 1 /\ Depth(p) = 1
             /\ Sees(p, "param") => d = 2
             /\ Sees(p, "settings") => Depth(p) = d + 1
             /\ Sees(p, "execution") => d = 3 /\ Depth(p) = 3
  BY <1>1, TidyReads
<1>2. CASE Select(p)
  <2>1. PICK late \in BOOLEAN, r \in Runs :
          /\ Key(p, late) /\ Push(p, late, Question(run[r].command, 1))
          /\ late \/ Sees(p, "entry")
    BY <1>2 DEF Select
  <2>2. run[r].command \in Commands /\ worker' = worker
    BY <1>2 DEF Select, FileTypeOK
  <2>3. PICK x \in Screens :
          x = Question(run[r].command, 1) /\ x.kind # "execution"
    BY <2>2, ScreenKinds
  <2>4. app[p].life = "up"
    BY <2>1, KeyTyped
  <2> QED BY <2>1, <2>2, <2>3, <2>4, PushPlaced
<1>3. CASE OpenSettings(p)
  <2>1. /\ ~Sees(p, "settings") /\ Key(p, FALSE) /\ Push(p, FALSE, Settings)
        /\ worker' = worker
    BY <1>3 DEF OpenSettings
  <2>2. app[p].life = "up" /\ FALSE \in BOOLEAN
    BY <2>1, KeyTyped
  <2>3. Settings \in Screens /\ Settings.kind # "execution"
    BY ScreenKinds
  <2> QED BY <2>1, <2>2, <2>3, PushPlaced
<1>4. CASE ConfirmLeft(p)
  <2>1. PICK c \in Commands, late \in BOOLEAN :
          late /\ Key(p, late) /\ Execute(p, late, c)
    BY <1>4 DEF ConfirmLeft
  <2>2. app[p].life = "up"
    BY <2>1, KeyTyped
  <2> QED BY <2>1, <2>2, ExecutePlaced
<1>5. CASE BackLeft(p)
  <2>1. PICK late \in BOOLEAN : late /\ Key(p, late) /\ Pop(p, late, 1)
    BY <1>5 DEF BackLeft
  <2>2. app[p].life = "up"
    BY <2>1 DEF Key, Free
  <2> QED BY <2>1, <2>2, 1 \in 1..2, PopPlaced
<1>6. ASSUME NEW i \in 1..Depth(p), Confirm(p, i) PROVE AllPlaced'
  <2> DEFINE c == s[i].of
             k == s[i].step
  <2>1. PICK late \in BOOLEAN :
          /\ Key(p, late) /\ s[i].kind = "param" /\ (~late => i = Depth(p))
          /\ \/ /\ k < Steps[c] /\ Answers(p, i, k + 1, late)
                /\ worker' = worker
             \/ k = Steps[c] /\ Execute(p, late, c)
    BY <1>6 DEF Confirm, Shows, Answers
  <2>2. app[p].life = "up"
    BY <2>1, KeyTyped
  <2>3. c \in Commands /\ k \in Nat /\ s[i] = Question(c, k)
    BY <1>0, <2>1, ScreenKinds
  <2>4. CASE k = Steps[c] /\ Execute(p, late, c)
    <3>1. ~late => Depth(p) > 0 /\ s[Depth(p)] = Question(c, Steps[c])
      BY <1>0, <2>1, <2>3, <2>4
    <3> HIDE DEF c, k
    <3> QED BY <2>2, <2>3, <2>4, <3>1, ExecutePlaced
  <2>5. CASE k < Steps[c] /\ Answers(p, i, k + 1, late) /\ worker' = worker
    <3>1. PICK m \in Nat : Answers(p, i, m, late) /\ m \in 1..Steps[c]
      <4>1. k + 1 \in Nat /\ k + 1 \in 1..Steps[c]
        BY <2>3, <2>5, StepsAssumption
      <4> HIDE DEF k, c
      <4> QED BY <2>5, <4>1
    <3> QED BY <2>1, <2>2, <2>5, <3>1, AnswerPlaced
  <2> QED BY <2>1, <2>4, <2>5
<1>7. ASSUME NEW i \in 1..Depth(p), Back(p, i) PROVE AllPlaced'
  <2> DEFINE c == s[i].of
             k == s[i].step
  <2>1. PICK late \in BOOLEAN :
          /\ Key(p, late) /\ s[i].kind = "param" /\ (~late => i = Depth(p))
          /\ \/ k > 1 /\ Answers(p, i, k - 1, late) /\ worker' = worker
             \/ Pop(p, late, 1)
    BY <1>7 DEF Back, Shows, Answers
  <2>2. app[p].life = "up" /\ 1 \in 1..2
    BY <2>1, KeyTyped
  <2>3. c \in Commands /\ k \in Nat /\ s[i] = Question(c, k)
    BY <1>0, <2>1, ScreenKinds
  <2>4. ~late => Sees(p, "param")
    BY <1>0, <2>1 DEF Sees, Shows
  <2>5. CASE Pop(p, late, 1)
    BY <1>1, <2>2, <2>4, <2>5, PopPlaced
  <2>6. CASE k > 1 /\ Answers(p, i, k - 1, late) /\ worker' = worker
    <3>1. PICK m \in Nat : Answers(p, i, m, late) /\ m = k - 1
      <4>1. k - 1 \in Nat
        BY <2>3, <2>6
      <4> HIDE DEF k, c
      <4> QED BY <2>6, <4>1
    <3>2. ~app[p].rushed /\ ~late => m \in 1..Steps[c]
      <4> SUFFICES ASSUME ~app[p].rushed, ~late PROVE m \in 1..Steps[c]
        OBVIOUS
      <4>1. PICK d \in 1..3 : Tidy(p, d)
        BY <2>2 DEF AllPlaced, Placed, IsTidy
      <4>2. d = 2 /\ i = 2
        BY <1>0, <2>1, <2>4, <4>1, TidyReads
      <4>3. PICK e \in Commands : \E n \in 1..Steps[e] : s[i] = Question(e, n)
        BY <4>1, <4>2 DEF Tidy
      <4>4. PICK n \in 1..Steps[e] : s[i] = Question(e, n)
        BY <4>3
      <4>5. c = e /\ k = n
        BY <4>4, ScreenKinds
      <4> HIDE DEF c, k
      <4> QED BY <2>6, <3>1, <4>4, <4>5, StepsAssumption
    <3> QED BY <2>1, <2>2, <2>6, <3>1, <3>2, AnswerPlaced
  <2> QED BY <2>1, <2>5, <2>6
<1>8. ASSUME NEW i \in 1..Depth(p), CloseSettings(p, i) PROVE AllPlaced'
  <2>1. PICK late \in BOOLEAN :
          /\ Key(p, late) /\ Pop(p, late, 1)
          /\ late \/ Sees(p, "settings")
    BY <1>8, <1>0 DEF CloseSettings, Sees, Shows
  <2>2. app[p].life = "up" /\ 1 \in 1..2
    BY <2>1, KeyTyped
  <2> QED BY <1>1, <2>1, <2>2, PopPlaced
<1>9. ASSUME NEW r \in Runs, Return(p, r) PROVE AllPlaced'
  <2>1. PICK late \in BOOLEAN :
          /\ Key(p, late) /\ Pop(p, late, 2) /\ Finished(r)
          /\ late \/ (Depth(p) > 0 /\ s[Depth(p)] = Execution(r))
    BY <1>9 DEF Return
  <2>2. app[p].life = "up" /\ 2 \in 1..2
    BY <2>1, KeyTyped
  <2>3. ASSUME NEW d \in 1..3, ~late, Tidy(p, d)
        PROVE  /\ d = 3 /\ Depth(p) = 3
               /\ \A x \in Runs : worker[x].app = p => worker[x].at \notin Going
    <3>1. Sees(p, "execution") /\ s[Depth(p)] = Execution(r)
      BY <1>0, <2>1, <2>3, ScreenKinds DEF Sees, Shows
    <3>2. d = 3 /\ Depth(p) = 3
      BY <1>1, <2>3, <3>1
    <3>3. ASSUME NEW x \in Runs, worker[x].app = p, worker[x].at \in Going
          PROVE  FALSE
      <4>1. Execution(x) = Execution(r)
        BY <2>3, <3>1, <3>2, <3>3 DEF Tidy
      <4>2. x = r
        BY <4>1, ScreenKinds
      <4> QED BY <2>1, <3>3, <4>2 DEF Finished, Going, Hearing
    <3> QED BY <3>2, <3>3
  <2> QED BY <2>1, <2>2, <2>3, PopPlaced
<1> QED BY <1>2, <1>3, <1>4, <1>5, <1>6, <1>7, <1>8, <1>9 DEF ScreenStep


LEMMA AllKept ==
  ASSUME AllPlaced, CommandsStay,
         \A p \in Apps : /\ app'[p].stack = app[p].stack
                         /\ app'[p].life = "up" => app[p].life = "up"
                         /\ app'[p].rushed = app[p].rushed
                         /\ \A r \in Runs : Still(p, worker[r], worker'[r])
  PROVE  AllPlaced'
BY PlaceKept DEF AllPlaced

LEMMA OwnPlaced ==
  ASSUME AllPlaced, TermSound, NEW p \in Apps, CommandsStay,
         Start(p) \/ Save(p) \/ Saved(p) \/ Reloaded(p) \/ Quit(p) \/ Gone(p) \/ Dies(p)
  PROVE  AllPlaced'
<1>1. /\ app \in [Apps -> AppRecords] /\ app[p] \in AppRecords
      /\ \A r \in Runs : worker[r] \in WorkerRecords /\ Well(worker[r])
  BY DEF TermSound
<1>2. CASE \/ Save(p) \/ Saved(p) \/ (Reloaded(p) /\ ~Ends(p))
           \/ (Start(p) /\ app' = app)
  <2>1. worker' = worker
    BY <1>2 DEF Save, Saved, Reloaded, Start
  <2>2. \A q \in Apps : /\ app'[q].stack = app[q].stack
                        /\ app'[q].life = app[q].life
                        /\ app'[q].rushed = app[q].rushed
    <3>1. CASE Save(p)
      <4>1. PICK t \in Texts : app' = [app EXCEPT ![p].saving = t]
        BY <3>1 DEF Save
      <4> QED BY <1>1, <4>1 DEF AppRecords
    <3>2. CASE Saved(p)
      BY <1>1, <3>2 DEF Saved, AppRecords
    <3>3. CASE Reloaded(p) /\ ~Ends(p)
      <4>1. app' = [app EXCEPT ![p].saving = "none",
                      ![p].memory = IF settings \in Valid THEN settings ELSE @]
        BY <3>3 DEF Reloaded
      <4> QED BY <1>1, <4>1 DEF AppRecords
    <3> QED BY <1>2, <3>1, <3>2, <3>3
  <2>3. \A q \in Apps, r \in Runs : Still(q, worker[r], worker'[r])
    BY <2>1 DEF Still
  <2> QED BY <2>2, <2>3, AllKept
<1>3. CASE (Reloaded(p) /\ Ends(p)) \/ Gone(p) \/ Dies(p)
  BY <1>3, EndPlaced DEF Gone, Dies
<1>4. CASE Start(p) /\ app' # app
  <2>1. /\ app[p].life = "down" /\ worker' = worker
        /\ app' = [app EXCEPT ![p] = [Down EXCEPT !.life = "up", !.stack = <<Menu>>,
                                                 !.memory = settings]]
    BY <1>4 DEF Start
  <2>2. /\ app'[p].stack = <<Menu>> /\ \A q \in Apps \ {p} : app'[q] = app[q]
    BY <1>1, <2>1 DEF Down
  <2>3. Len(<<Menu>>) = 1 /\ <<Menu>>[1] = Menu
    OBVIOUS
  <2>4. \A r \in Runs : worker[r].app # p
    BY <2>1 DEF TermSound
  <2>5. \A i : \A r \in Runs : ~Executing(p, i, r)'
    BY <2>2, <2>3, ScreenKinds DEF Executing, Depth
  <2>6. Tidy(p, 1)'
    BY <2>1, <2>2, <2>3, <2>4 DEF Tidy
  <2>7. Placed(p)'
    BY <2>1, <2>4, <2>5, <2>6 DEF Placed, IsTidy
  <2>8. OthersKept(p)
    BY <2>1, <2>2 DEF OthersKept
  <2> QED BY <2>7, <2>8, OthersPlaced DEF AllPlaced
<1>5. CASE Quit(p)
  <2>1. /\ app'[p].stack = <<>> /\ app'[p].life # "up"
        /\ \A q \in Apps \ {p} : app'[q] = app[q]
    BY <1>1, <1>5 DEF Quit, AppRecords
  <2>2. \A r \in Runs : worker'[r] = IF worker[r].app = p THEN Stopped(worker[r])
                                     ELSE worker[r]
    BY <1>5 DEF Quit, Stop, Of
  <2>3. OthersKept(p)
    BY <1>1, <2>1, <2>2, StoppedWell DEF OthersKept
  <2>4. ASSUME NEW i, NEW r \in Runs PROVE ~Executing(p, i, r)'
    BY <2>1 DEF Executing, Depth
  <2>5. ASSUME NEW r \in Runs, worker'[r].app = p, worker'[r].at \in Going
        PROVE  worker'[r].told
    BY <1>1, <2>2, <2>5, StoppedWell
  <2>6. Placed(p)'
    BY <2>1, <2>4, <2>5 DEF Placed, IsTidy
  <2> QED BY <2>3, <2>6, OthersPlaced DEF AllPlaced
<1> QED BY <1>2, <1>3, <1>4, <1>5

LEMMA WorkersPlaced ==
  ASSUME AllPlaced, TermSound, NEW r \in Runs, WorkerStep(r), CommandsStay
  PROVE  AllPlaced'
<1>1. worker[r] \in WorkerRecords /\ Well(worker[r])
  BY DEF TermSound
<1>2. CASE UNCHANGED <<app, worker, ownVars, lateKeys>>
  BY <1>2, AllKept DEF Still
<1>3. CASE worker[r].app \in Apps /\ Ends(worker[r].app)
  BY <1>3, EndPlaced
<1>4. ASSUME NEW at, NEW heading, Follows(r, at, heading),
             Allowed(worker[r], at, heading)
      PROVE  AllPlaced'
  <2> DEFINE v == Advanced(worker[r], at, heading)
  <2>1. v.app = worker[r].app /\ v.told = worker[r].told /\ v.at = at
    BY <1>1, <1>4, AdvancedWell
  <2>2. at # "none" /\ worker[r].at \in Going
    BY <1>4 DEF Allowed, Going, Hearing
  <2>3. app' = app /\ worker' = [worker EXCEPT ![r] = v]
    BY <1>4 DEF Follows
  <2> HIDE DEF v
  <2>4. \A p \in Apps, x \in Runs : Still(p, worker[x], worker'[x])
    BY <2>1, <2>2, <2>3 DEF Still, TermSound
  <2> QED BY <2>3, <2>4, AllKept
<1>5. CASE /\ ~(UNCHANGED <<app, worker, ownVars, lateKeys>>)
           /\ ~(worker[r].app \in Apps /\ Ends(worker[r].app))
  <2>1. PICK at, heading : Follows(r, at, heading) /\ Allowed(worker[r], at, heading)
    BY <1>5, StepKinds DEF Allowed, Going, Hearing, Said, Acts
  <2> QED BY <1>4, <2>1
<1> QED BY <1>2, <1>3, <1>5

LEMMA PlacesHold == TermSpec => [](AllPlaced /\ TermSound /\ FileSound)
<1>1. TermInit => AllPlaced /\ TermSound /\ FileSound
  <2> SUFFICES ASSUME TermInit PROVE AllPlaced /\ TermSound /\ FileSound
    OBVIOUS
  <2>1. TermSound /\ FileSound
    BY TermSoundFirst, FileSoundFirst DEF TermInit
  <2>2. \A r \in Runs : worker[r].app = Nil
    BY DEF TermInit, Idle
  <2>3. \A p \in Apps : app[p].stack = <<>> /\ app[p].life = "down"
    BY DEF TermInit, Down
  <2>4. \A p \in Apps : \A i : \A r \in Runs : ~Executing(p, i, r)
    BY <2>3 DEF Executing, Depth
  <2> QED BY <2>1, <2>2, <2>3, <2>4, NilAssumption DEF AllPlaced, Placed, IsTidy
<1>2. ASSUME AllPlaced, TermSound, FileSound, [TermNext]_termVars
      PROVE  AllPlaced' /\ TermSound' /\ FileSound'
  <2>1. [FileNext]_fileVars
    BY <1>2, RunMoves DEF FileNext, Stops
  <2>2. TermSound' /\ FileSound' /\ CommandsStay
    BY <1>2, <2>1, FileSoundKept, TermMoves, CommandsAreKept DEF FileSound
  <2>3. CASE UNCHANGED <<app, worker>>
    BY <1>2, <2>2, <2>3, AllKept DEF Still
  <2>4. CASE PowerFails
    <3>1. \A r \in Runs : worker'[r].app = Nil
      BY <2>4 DEF PowerFails, Idle
    <3>2. \A p \in Apps : app'[p].stack = <<>> /\ app'[p].life # "up"
      BY <2>4 DEF PowerFails, Down
    <3> QED BY <2>2, <3>1, <3>2, PlaceLeft, NilAssumption DEF AllPlaced
  <2>5. ASSUME NEW p \in Apps, AppStep(p) PROVE AllPlaced'
    BY <1>2, <2>2, <2>5, ScreensPlaced, OwnPlaced DEF AppStep, FileSound
  <2> QED BY <1>2, <2>2, <2>3, <2>4, <2>5, WorkersPlaced
          DEF TermNext, termVars, Written
<1> QED BY <1>1, <1>2, PTL DEF TermSpec

(* The layers of a tidy process, as sequences.                             *)
LEMMA TidyStacks ==
  ASSUME TermSound, NEW p \in Apps, NEW d \in 1..3, Tidy(p, d)
  PROVE  /\ Underneath(app[p].stack) \in Seq(Screens)
         /\ Len(Underneath(app[p].stack)) = d
         /\ \A i \in 1..d : Underneath(app[p].stack)[i] = app[p].stack[i]
<1> DEFINE s == app[p].stack
<1>1. s \in Seq(Screens) /\ Len(s) \in Nat /\ Len(s) = Depth(p)
  BY Stacks DEF Depth
<1>2. Len(s) \in {d, d + 1} /\ (Len(s) = d + 1 <=> s[Len(s)] = Settings)
  <2>1. Sees(p, "settings") <=> s[Len(s)].kind = "settings"
    BY <1>1, TidyReads DEF Sees, Shows
  <2>2. Len(s) > 0 => (s[Len(s)].kind = "settings" <=> s[Len(s)] = Settings)
    BY <1>1, ScreenKinds
  <2> QED BY <1>1, <2>1, <2>2, TidyReads
<1>3. s # <<>>
  BY <1>1, <1>2
<1>4. CASE Len(s) = d + 1
  <2>1. Underneath(s) = Sub(s, 1)
    BY <1>2, <1>3, <1>4 DEF Underneath
  <2>2. 1 \in 1..2 /\ 1 <= Len(s) /\ Len(s) - 1 = d
    BY <1>1, <1>4
  <2>3. /\ Sub(s, 1) \in Seq(Screens) /\ Len(Sub(s, 1)) = Len(s) - 1
        /\ \A i \in 1..(Len(s) - 1) : Sub(s, 1)[i] = s[i]
    BY <1>1, <2>2, StackKept
  <2> QED BY <2>1, <2>2, <2>3
<1>5. CASE Len(s) = d
  <2>1. Underneath(s) = s
    BY <1>2, <1>5 DEF Underneath
  <2> QED BY <1>1, <1>5, <2>1
<1> QED BY <1>2, <1>4, <1>5


LEMMA TidyIsOrderly ==
  ASSUME TermSound, NEW p \in Apps, NEW d \in 1..3, Tidy(p, d)
  PROVE  Orderly(p)
<1> DEFINE s == app[p].stack
           t == Underneath(s)
<1>1. t \in Seq(Screens) /\ Len(t) = d /\ \A i \in 1..d : t[i] = s[i]
  BY TidyStacks
<1>2. s[1] = Menu
  BY DEF Tidy
<1>3. \A r \in Of(p) : worker[r].at \in Going => t[Len(t)] = Execution(r)
  BY <1>1 DEF Tidy, Of
<1> HIDE DEF t
<1>4. CASE d = 1
  <2>1. <<Menu>> \in Seq(Screens) /\ Len(<<Menu>>) = 1 /\ <<Menu>>[1] = Menu
    BY ScreenKinds
  <2>2. t = <<Menu>>
    <3> DEFINE u == <<Menu>>
    <3>1. u \in Seq(Screens) /\ Len(t) = Len(u) /\ \A i \in 1..Len(t) : t[i] = u[i]
      BY <1>1, <1>2, <1>4, <2>1
    <3> HIDE DEF u
    <3>2. t = u
      BY <1>1, <3>1, SeqEqual
    <3> QED BY <3>2 DEF u
  <2> QED BY <1>3, <2>2 DEF Orderly, t
<1>5. CASE d = 2
  <2>1. PICK c \in Commands : \E k \in 1..Steps[c] : s[2] = Question(c, k)
    BY <1>5 DEF Tidy
  <2>2. PICK k \in 1..Steps[c] : s[2] = Question(c, k)
    BY <2>1
  <2>3. Question(c, k) \in Screens
    BY <2>2, StepsAssumption, ScreenKinds
  <2>4. t = <<Menu, Question(c, k)>>
    <3> DEFINE u == <<Menu, Question(c, k)>>
    <3>1. u \in Seq(Screens) /\ Len(u) = 2 /\ u[1] = Menu /\ u[2] = Question(c, k)
      BY <2>3, ScreenKinds
    <3>2. Len(t) = Len(u) /\ \A i \in 1..Len(t) : t[i] = u[i]
      BY <1>1, <1>2, <1>5, <2>2, <3>1
    <3> HIDE DEF u
    <3>3. t = u
      BY <1>1, <3>1, <3>2, SeqEqual
    <3> QED BY <3>3 DEF u
  <2> QED BY <1>3, <2>4 DEF Orderly, t
<1>6. CASE d = 3
  <2>1. PICK r \in Runs : /\ s[3] = Execution(r)
                          /\ s[2] = Question(run[r].command, Steps[run[r].command])
    BY <1>6 DEF Tidy
  <2> DEFINE q == Question(run[r].command, Steps[run[r].command])
  <2>2. q \in Screens /\ Execution(r) \in Screens
    <3>1. PICK c \in Commands : \E k \in 1..Steps[c] : s[2] = Question(c, k)
      BY <1>6 DEF Tidy
    <3>2. PICK k \in 1..Steps[c] : s[2] = Question(c, k)
      BY <3>1
    <3>3. Question(c, k) \in Screens
      BY <3>2, StepsAssumption, ScreenKinds
    <3> QED BY <2>1, <3>2, <3>3, ScreenKinds
  <2>3. t = <<Menu, q, Execution(r)>>
    <3> DEFINE u == <<Menu, q, Execution(r)>>
    <3>1. /\ u \in Seq(Screens) /\ Len(u) = 3
          /\ u[1] = Menu /\ u[2] = q /\ u[3] = Execution(r)
      BY <2>2, ScreenKinds
    <3>2. Len(t) = Len(u) /\ \A i \in 1..Len(t) : t[i] = u[i]
      BY <1>1, <1>2, <1>6, <2>1, <3>1
    <3> HIDE DEF u
    <3>3. t = u
      BY <1>1, <3>1, <3>2, SeqEqual
    <3> QED BY <3>3 DEF u
  <2> QED BY <1>3, <2>3 DEF Orderly, t
<1> QED BY <1>4, <1>5, <1>6

(* The screens and the workers belong together, whatever keys are pressed  *)
(* and however late any number of them is handled: an action that is       *)
(* executed has a worker, a worker that was not cancelled has one screen   *)
(* in its process, a cancelled one none, and it hears the log; and while   *)
(* no key is late, screens lie on each other as they should.               *)
THEOREM ScreensBelongToWorkers == TermSpec => []ScreensFollowWorker
<1>1. ASSUME AllPlaced, AllAgree, TermSound PROVE ScreensFollowWorker
  <2>1. WorkersHaveScreens
    <3>1. ASSUME NEW r \in Runs, run[r].place \notin Over PROVE Acts(r)
      BY <1>1, <3>1 DEF AllAgree, Agrees
    <3>2. ASSUME NEW r \in Runs, worker[r].at \in Going, ~worker[r].told
          PROVE  \E i \in 1..Depth(worker[r].app) : Executing(worker[r].app, i, r)
      <4>1. worker[r].app \in Apps
        BY <1>1, <3>2 DEF TermSound, Well, Going, Hearing
      <4> QED BY <1>1, <3>2, <4>1 DEF AllPlaced, Placed, Executing
    <3>3. ASSUME NEW r \in Runs, NEW p \in Apps, NEW i \in 1..Depth(p),
                 NEW j \in 1..Depth(p), Executing(p, i, r)
          PROVE  /\ worker[r].app = p /\ worker[r].at # "none" /\ ~worker[r].told
                 /\ Executing(p, j, r) => i = j
      BY <1>1, <3>3 DEF AllPlaced, Placed
    <3> QED BY <3>1, <3>2, <3>3 DEF WorkersHaveScreens
  <2>2. LogIsHeard
    BY <1>1 DEF TermSound, Well, LogIsHeard
  <2>3. ASSUME NEW p \in Apps, app[p].life = "up", ~app[p].rushed PROVE Orderly(p)
    BY <1>1, <2>3, TidyIsOrderly DEF AllPlaced, Placed, IsTidy
  <2> QED BY <2>1, <2>2, <2>3 DEF ScreensFollowWorker
<1> QED BY <1>1, PlacesHold, AgreementHolds, PTL

=============================================================================
