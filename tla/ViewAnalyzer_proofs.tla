------------------------- MODULE ViewAnalyzer_proofs -------------------------
(***************************************************************************)
(* Proofs about ViewAnalyzer: whatever other runs are started on the view  *)
(* and in whatever order they show in its log, a call follows one run, it  *)
(* is a recent one, and its own is found.                                  *)
(***************************************************************************)
EXTENDS ViewAnalyzer, TLAPS

(* A step of the call c that leaves the tenant and the other calls alone,  *)
(* or starts an analysis.                                                  *)
CallStep(c) == Answered(c) \/ Poll(c) \/ PollTimesOut(c) \/ Raises(c) \/ Cancelled(c)

LEMMA MatchingShown == \A c : Matching(c) \subseteq shown
  BY DEF Matching

LEMMA TypeTenant ==
  ASSUME TypeOK, NEW r \in Runs, NEW k \in {"analysis", "other"},
         NEW who \in Callers \cup {Others}, Starts(r, k, who)
  PROVE  /\ run' \in [Runs -> RunState]
         /\ kind' \in [Runs -> {"analysis", "other"}]
         /\ by' \in [Runs -> Callers \cup {Others}]
         /\ shown' \subseteq Runs
  BY DEF TypeOK, Starts, RunState

LEMMA TypeFollows ==
  ASSUME TypeOK, NEW c \in Callers, NEW r \in Runs, NEW before \in BOOLEAN,
         Follows(c, r, before)
  PROVE  /\ logId' \in [Callers -> Runs \cup {NoLog}]
         /\ already' \in [Callers -> BOOLEAN]
         /\ place' \in [Callers -> Place]
         /\ UNCHANGED <<known, over, result>>
  BY DEF TypeOK, Follows, Go, Place

LEMMA TypeCall == ASSUME TypeOK, NEW c \in Callers, CallStep(c) PROVE TypeOK'
<1> USE DEF TypeOK, tenantVars, Ended, Go, Place, Result
<1>1. CASE ReadLogs(c)
  BY <1>1 DEF ReadLogs, Over
<1>2. CASE StartRefused(c) \/ PollTimesOut(c) \/ Fetched(c)
  BY <1>2 DEF StartRefused, PollTimesOut, Fetched
<1>3. CASE StartAccepted(c)
  <2>1. PICK r \in Runs : Starts(r, "analysis", c) /\ Follows(c, r, FALSE)
    BY <1>3 DEF StartAccepted
  <2>2. QED
    BY <2>1, TypeTenant, TypeFollows
<1>4. CASE AlreadyRunning(c)
  <2>1. PICK r \in Runs : Follows(c, r, TRUE) /\ UNCHANGED tenantVars
    BY <1>4 DEF AlreadyRunning, Analyses
  <2>2. QED
    BY <2>1, TypeFollows
<1>5. CASE Poll(c)
  <2>1. PICK r \in shown :
          /\ logId' = [logId EXCEPT ![c] = r]
          /\ \/ UNCHANGED <<place, result>>
             \/ Go(c, "fetching") /\ UNCHANGED result
             \/ Ended(c, "failed")
    BY <1>5, MatchingShown DEF Poll
  <2>2. QED
    BY <1>5, <2>1 DEF Poll
<1>6. CASE Raises(c) \/ Cancelled(c)
  <2>1. MaybeStarted(c) /\ UNCHANGED <<known, over, logId, already>>
    BY <1>6 DEF Raises, Cancelled
  <2>2. /\ place' \in [Callers -> Place] /\ result' \in [Callers -> Result]
    BY <1>6 DEF Raises, Cancelled
  <2>3. CASE UNCHANGED tenantVars
    BY <2>1, <2>2, <2>3
  <2>4. ASSUME NEW r \in Runs, Starts(r, "analysis", c) PROVE TypeOK'
    BY <2>1, <2>2, <2>4, TypeTenant
  <2>5. QED
    BY <2>1, <2>3, <2>4 DEF MaybeStarted
<1>7. QED
  BY <1>1, <1>2, <1>3, <1>4, <1>5, <1>6 DEF CallStep, Answered

(* Every variable keeps its type. *)
THEOREM TypeCorrect == Spec => []TypeOK
<1>1. Init => TypeOK
  BY DEF Init, TypeOK, RunState, Place, Result
<1>2. TypeOK /\ [Next]_vars => TypeOK'
  <2> SUFFICES ASSUME TypeOK, [Next]_vars PROVE TypeOK'
    OBVIOUS
  <2>1. CASE TenantStep
    <3>1. ASSUME NEW r \in Runs, NEW k \in {"analysis", "other"}, StartedByOthers(r, k)
          PROVE  TypeOK'
      BY <3>1, TypeTenant DEF StartedByOthers, callVars, TypeOK
    <3>2. ASSUME NEW r \in Runs, Appears(r) \/ Ends(r, "completed") \/ Ends(r, "failed")
          PROVE  TypeOK'
      BY <3>2 DEF Appears, Ends, callVars, TypeOK, RunState
    <3>3. QED
      BY <2>1, <3>1, <3>2 DEF TenantStep
  <2>2. CASE Finished \/ UNCHANGED vars
    BY <2>2 DEF Finished, vars, tenantVars, callVars, TypeOK
  <2>3. QED
    BY <2>1, <2>2, TypeCall DEF Next, CallStep
<1>3. QED
  BY <1>1, <1>2, PTL DEF Spec

-----------------------------------------------------------------------------
(* What the tenant may do to the log, and what it never does.              *)

Started(r) == run[r] # "none"
HasEnded(r) == run[r] \in {"completed", "failed"}

(* The log shows only runs that were started, and every run that ended.    *)
Logged == \A r \in Runs : (r \in shown => Started(r)) /\ (HasEnded(r) => r \in shown)

(* Runs keep their activity, stay ended, and stay in the log.              *)
LogGrows ==
  /\ \A r \in Runs : Started(r) => Started(r)' /\ kind'[r] = kind[r]
  /\ \A r \in Runs : HasEnded(r) => run'[r] = run[r]
  /\ shown \subseteq shown'

LEMMA StartsLogged ==
  ASSUME TypeOK, Logged, NEW r \in Runs, NEW k \in {"analysis", "other"},
         NEW who \in Callers \cup {Others}, Starts(r, k, who)
  PROVE  LogGrows /\ Logged' /\ Started(r)' /\ kind'[r] = k /\ ~Started(r)
  BY DEF TypeOK, Logged, LogGrows, Starts, Started, HasEnded

LEMMA StillLogged ==
  ASSUME TypeOK, Logged, UNCHANGED tenantVars
  PROVE  LogGrows /\ Logged'
  BY DEF Logged, LogGrows, tenantVars, Started, HasEnded

LEMMA LoggedStep ==
  ASSUME TypeOK, Logged, [Next]_vars
  PROVE  LogGrows /\ Logged'
<1>1. ASSUME NEW r \in Runs, NEW k \in {"analysis", "other"}, StartedByOthers(r, k)
      PROVE  LogGrows /\ Logged'
  BY <1>1, StartsLogged DEF StartedByOthers
<1>2. ASSUME NEW r \in Runs, Appears(r) \/ Ends(r, "completed") \/ Ends(r, "failed")
      PROVE  LogGrows /\ Logged'
  BY <1>2 DEF TypeOK, Logged, LogGrows, Appears, Ends, Started, HasEnded
<1>3. ASSUME NEW c \in Callers, CallStep(c) PROVE LogGrows /\ Logged'
  <2>1. \/ UNCHANGED tenantVars
        \/ \E r \in Runs : Starts(r, "analysis", c)
    BY <1>3 DEF CallStep, Answered, ReadLogs, StartRefused, StartAccepted,
       AlreadyRunning, Fetched, Poll, PollTimesOut, Raises, Cancelled, MaybeStarted
  <2>2. QED
    BY <2>1, StartsLogged, StillLogged
<1>4. CASE Finished \/ UNCHANGED vars
  BY <1>4, StillLogged DEF Finished, vars
<1>5. CASE TenantStep
  BY <1>1, <1>2, <1>5 DEF TenantStep
<1>6. QED
  BY <1>3, <1>4, <1>5 DEF Next, CallStep

-----------------------------------------------------------------------------
(* What is known of a call wherever it is suspended.                       *)

(* Everything that had ended when the call read the log was in it; no run  *)
(* is followed before the start; the run followed had not ended then; and  *)
(* a call that completes, or is about to, follows a run that completed.    *)
Follow(c) ==
  /\ \A r \in known[c] : Started(r)
  /\ \A r \in over[c] : HasEnded(r) /\ r \in known[c]
  /\ place[c] \in {"reading", "starting"} => logId[c] = NoLog
  /\ logId[c] # NoLog => logId[c] \notin over[c]
  /\ place[c] = "fetching" \/ result[c] = "completed"
       => logId[c] # NoLog /\ run[logId[c]] = "completed"

(* A call that started a run, and has not found it yet, has one to find.   *)
Own(c) ==
  place[c] = "polling" /\ ~already[c] =>
    \/ /\ logId[c] = NoLog
       /\ \E r \in Runs \ known[c] : Started(r) /\ kind[r] = "analysis"
    \/ /\ logId[c] # NoLog
       /\ \/ logId[c] \in shown
          \/ Started(logId[c]) /\ kind[logId[c]] = "analysis"

Followed == \A c \in Callers : Follow(c) /\ Own(c)

LEMMA FollowKept ==
  ASSUME TypeOK, Followed, LogGrows, NEW d \in Callers,
         known'[d] = known[d], over'[d] = over[d], logId'[d] = logId[d],
         already'[d] = already[d],
         place'[d] = place[d] \/ place'[d] = "ended",
         result'[d] = result[d] \/ result'[d] # "completed"
  PROVE  Follow(d)' /\ Own(d)'
<1>1. Follow(d) /\ Own(d)
  BY DEF Followed
<1>2. known[d] \subseteq Runs /\ over[d] \subseteq Runs /\ logId[d] \in Runs \cup {NoLog}
  BY DEF TypeOK
<1>3. Follow(d)'
  BY <1>1, <1>2 DEF Follow, LogGrows, Started, HasEnded
<1>4. Own(d)'
  BY <1>1, <1>2 DEF Own, LogGrows, Started
<1>5. QED
  BY <1>3, <1>4

(* The log is read, or the start is answered: nothing was followed before. *)
LEMMA FollowBegins ==
  ASSUME TypeOK, Logged, Followed, LogGrows, NEW c \in Callers,
         ReadLogs(c) \/ StartAccepted(c) \/ AlreadyRunning(c)
  PROVE  Follow(c)' /\ Own(c)'
<1>1. Follow(c) /\ known[c] \subseteq Runs /\ over[c] \subseteq Runs
  BY DEF Followed, TypeOK
<1>2. CASE ReadLogs(c)
  <2>1. /\ known'[c] = shown /\ over'[c] = Over /\ place'[c] = "starting"
        /\ UNCHANGED <<tenantVars, logId, already, result>>
    BY <1>2 DEF ReadLogs, Go, TypeOK
  <2>2. place[c] = "reading"
    BY <1>2 DEF ReadLogs
  <2>3. Over \subseteq shown /\ \A r \in shown : Started(r) /\ r \in Runs
    BY DEF Over, Logged, HasEnded, TypeOK
  <2>4. QED
    BY <1>1, <2>1, <2>2, <2>3 DEF Follow, Own, Over, Started, HasEnded, tenantVars
<1>3. ASSUME NEW r \in Runs, NEW before \in BOOLEAN, Follows(c, r, before),
             place[c] = "starting", Started(r)', ~HasEnded(r),
             ~before => r \notin known[c] /\ kind'[r] = "analysis"
      PROVE  Follow(c)' /\ Own(c)'
  <2>1. /\ known' = known /\ over' = over /\ result' = result
        /\ place'[c] = "polling" /\ already'[c] = before
        /\ logId'[c] \in {logId[c], r}
    BY <1>3 DEF Follows, Go, TypeOK
  <2>2. logId[c] = NoLog /\ r # NoLog /\ r \notin over[c]
    BY <1>1, <1>3 DEF Follow, Runs, NoLog
  <2>3. result[c] # "completed"
    BY <1>1, <2>2 DEF Follow
  <2>4. Follow(c)'
    BY <1>1, <2>1, <2>2, <2>3 DEF Follow, LogGrows, Started, HasEnded
  <2>5. Own(c)'
    BY <1>3, <2>1, <2>2 DEF Own, Started
  <2>6. QED
    BY <2>4, <2>5
<1>4. CASE StartAccepted(c)
  <2>1. PICK r \in Runs : Starts(r, "analysis", c) /\ Follows(c, r, FALSE)
    BY <1>4 DEF StartAccepted
  <2>2. ~Started(r) /\ Started(r)' /\ kind'[r] = "analysis"
    BY <2>1, StartsLogged
  <2>3. r \notin known[c] /\ ~HasEnded(r) /\ place[c] = "starting"
    BY <1>1, <1>4, <2>2 DEF Follow, StartAccepted, Started, HasEnded
  <2>4. QED
    BY <1>3, <2>1, <2>2, <2>3
<1>5. CASE AlreadyRunning(c)
  <2>1. PICK r \in Analyses : Follows(c, r, TRUE) /\ UNCHANGED tenantVars
    BY <1>5 DEF AlreadyRunning
  <2>2. r \in Runs /\ Started(r)' /\ ~HasEnded(r) /\ place[c] = "starting"
    BY <1>5, <2>1 DEF AlreadyRunning, Analyses, Started, HasEnded, tenantVars
  <2>3. QED
    BY <1>3, <2>1, <2>2
<1>6. QED
  BY <1>2, <1>4, <1>5

LEMMA MatchingRecent ==
  ASSUME TypeOK, Logged, NEW c \in Callers, Follow(c), NEW r \in Matching(c)
  PROVE  /\ r \in Runs /\ r # NoLog /\ r \in shown /\ r \notin over[c]
         /\ logId[c] # NoLog => r = logId[c]
<1>1. r \in shown /\ r \in Runs
  BY MatchingShown DEF TypeOK
<1>2. r # NoLog
  BY <1>1 DEF Runs, NoLog, TypeOK
<1>3. CASE logId[c] # NoLog
  BY <1>1, <1>2, <1>3 DEF Matching, Follow
<1>4. CASE logId[c] = NoLog
  <2>1. r \notin known[c] \/ run[r] = "running"
    BY <1>4 DEF Matching
  <2>2. QED
    BY <1>1, <1>2, <1>4, <2>1 DEF Follow, HasEnded
<1>5. QED
  BY <1>3, <1>4

LEMMA FollowPolls ==
  ASSUME TypeOK, Logged, Followed, NEW c \in Callers, Poll(c)
  PROVE  Follow(c)' /\ Own(c)'
<1>1. Follow(c) /\ Own(c)
  BY DEF Followed
<1>2. PICK r \in Matching(c) :
        /\ logId' = [logId EXCEPT ![c] = r]
        /\ \/ run[r] = "running" /\ UNCHANGED <<place, result>>
           \/ run[r] = "completed" /\ Go(c, "fetching") /\ UNCHANGED result
           \/ run[r] = "failed" /\ Ended(c, "failed")
  BY DEF Poll
<1>3. /\ logId'[c] = r /\ UNCHANGED <<tenantVars, known, over, already>>
      /\ r \in shown /\ r # NoLog /\ r \notin over[c]
  BY <1>1, <1>2, MatchingRecent DEF Poll, TypeOK
<1>4. place[c] = "polling" /\ result[c] = "completed" => run[r] = "completed"
  BY <1>1, <1>2, MatchingRecent DEF Poll, Follow
<1>5. \/ place'[c] = "polling" /\ result'[c] = result[c]
      \/ place'[c] = "fetching" /\ run[r] = "completed"
      \/ place'[c] = "ended" /\ result'[c] = "failed"
  BY <1>2 DEF Poll, Go, Ended, TypeOK
<1>6. Follow(c)'
  BY <1>1, <1>3, <1>4, <1>5 DEF Follow, Started, HasEnded, tenantVars, Poll
<1>7. Own(c)'
  BY <1>3 DEF Own, tenantVars
<1>8. QED
  BY <1>6, <1>7

(* A call leaves, with or without a result. *)
LEMMA FollowEnds ==
  ASSUME TypeOK, Followed, LogGrows, NEW c \in Callers,
         StartRefused(c) \/ PollTimesOut(c) \/ Fetched(c) \/ Raises(c) \/ Cancelled(c)
  PROVE  Follow(c)' /\ Own(c)'
<1>1. /\ UNCHANGED <<known, over, logId, already>>
      /\ place'[c] = "ended"
      /\ result'[c] = "completed" => place[c] = "fetching"
  BY DEF StartRefused, PollTimesOut, Fetched, Raises, Cancelled, Ended, Go, TypeOK
<1>2. CASE result'[c] # "completed"
  BY <1>1, <1>2, FollowKept
<1>3. CASE result'[c] = "completed"
  <2>1. Follow(c) /\ known[c] \subseteq Runs /\ over[c] \subseteq Runs
        /\ logId[c] \in Runs \cup {NoLog}
    BY DEF Followed, TypeOK
  <2>2. logId[c] # NoLog /\ run[logId[c]] = "completed"
    BY <1>1, <1>3, <2>1 DEF Follow
  <2>3. Follow(c)'
    BY <1>1, <2>1, <2>2 DEF Follow, LogGrows, Started, HasEnded
  <2>4. QED
    BY <1>1, <2>3 DEF Own
<1>4. QED
  BY <1>2, <1>3

LEMMA FollowedStep ==
  ASSUME TypeOK, Logged, Followed, [Next]_vars
  PROVE  Followed'
<1>1. LogGrows
  BY LoggedStep
<1>2. CASE UNCHANGED callVars
  BY <1>1, <1>2, FollowKept DEF callVars, Followed
<1>3. ASSUME NEW c \in Callers, CallStep(c) PROVE Followed'
  <2>1. ASSUME NEW d \in Callers, d # c
        PROVE  /\ known'[d] = known[d] /\ over'[d] = over[d] /\ logId'[d] = logId[d]
               /\ already'[d] = already[d] /\ place'[d] = place[d]
               /\ result'[d] = result[d]
    BY <1>3, <2>1 DEF CallStep, Answered, ReadLogs, StartRefused, StartAccepted,
       AlreadyRunning, Follows, Fetched, Poll, PollTimesOut, Raises, Cancelled,
       Ended, Go, TypeOK
  <2>2. Follow(c)' /\ Own(c)'
    BY <1>1, <1>3, FollowBegins, FollowPolls, FollowEnds DEF CallStep, Answered
  <2>3. ASSUME NEW d \in Callers, d # c PROVE Follow(d)' /\ Own(d)'
    BY <1>1, <2>1, <2>3, FollowKept
  <2>4. QED
    BY <2>2, <2>3 DEF Followed
<1>4. CASE TenantStep
  BY <1>2, <1>4 DEF TenantStep, StartedByOthers, Appears, Ends
<1>5. CASE Finished \/ UNCHANGED vars
  BY <1>2, <1>5 DEF Finished, vars
<1>6. QED
  BY <1>3, <1>4, <1>5 DEF Next, CallStep

LEMMA FollowedCorrect == Spec => [](Logged /\ Followed)
<1>1. Init => Logged /\ Followed
  BY DEF Init, Logged, Followed, Follow, Own, Started, HasEnded
<1>2. TypeOK /\ Logged /\ Followed /\ [Next]_vars => (Logged /\ Followed)'
  BY LoggedStep, FollowedStep
<1>3. QED
  BY <1>1, <1>2, TypeCorrect, PTL DEF Spec

-----------------------------------------------------------------------------
(* ResultIsRecent: the run a call names had not ended when it began.       *)
THEOREM ResultsAreRecent == Spec => []ResultIsRecent
<1>1. Followed => ResultIsRecent
  BY DEF Followed, Follow, ResultIsRecent
<1>2. QED
  BY <1>1, FollowedCorrect, PTL

(* ResultIsTruthful: a completed call names a run that completed.          *)
THEOREM ResultsAreTrue == Spec => []ResultIsTruthful
<1>1. Followed => ResultIsTruthful
  BY DEF Followed, Follow, ResultIsTruthful
<1>2. QED
  BY <1>1, FollowedCorrect, PTL

(* OwnRunIsFound: once no analysis is going, a call that started one has   *)
(* an entry of the log to follow, so it does not poll in vain.             *)
THEOREM OwnRunsAreFound == Spec => []OwnRunIsFound
<1>1. ASSUME TypeOK, Logged, Followed, NEW c \in Callers, ~already[c],
             place[c] = "polling", Analyses = {}
      PROVE  Matching(c) # {}
  <2>1. Own(c)
    BY <1>1 DEF Followed
  <2>2. ASSUME NEW r \in Runs, Started(r), kind[r] = "analysis" PROVE r \in shown
    BY <1>1, <2>2 DEF Analyses, Started, Logged, HasEnded, TypeOK, RunState
  <2>3. CASE logId[c] = NoLog
    <3>1. PICK r \in Runs \ known[c] : Started(r) /\ kind[r] = "analysis"
      BY <1>1, <2>1, <2>3 DEF Own
    <3>2. r \in shown \ known[c]
      BY <2>2, <3>1
    <3>3. QED
      BY <2>3, <3>2 DEF Matching
  <2>4. CASE logId[c] # NoLog
    <3>1. logId[c] \in shown
      BY <1>1, <2>1, <2>2, <2>4 DEF Own, TypeOK
    <3>2. QED
      BY <2>4, <3>1 DEF Matching
  <2>5. QED
    BY <2>3, <2>4
<1>2. TypeOK /\ Logged /\ Followed => OwnRunIsFound
  BY <1>1 DEF OwnRunIsFound, FindsWhatItStarted
<1>3. QED
  BY <1>2, TypeCorrect, FollowedCorrect, PTL

(* FollowsOneRun: a call that follows a run never follows another.         *)
THEOREM OneRunIsFollowed == Spec => FollowsOneRun
<1>1. ASSUME TypeOK, Logged, Followed, [Next]_vars, NEW c \in Callers, logId[c] # NoLog
      PROVE  logId'[c] = logId[c]
  <2>1. CASE logId' = logId
    BY <2>1
  <2>2. ASSUME NEW d \in Callers, StartAccepted(d) \/ AlreadyRunning(d)
        PROVE  logId'[c] = logId[c]
    <3>1. place[d] = "starting"
      BY <2>2 DEF StartAccepted, AlreadyRunning
    <3>2. PICK r \in Runs : logId' = logId \/ logId' = [logId EXCEPT ![d] = r]
      BY <2>2 DEF StartAccepted, AlreadyRunning, Follows, Analyses
    <3>3. c # d
      BY <1>1, <3>1 DEF Followed, Follow
    <3>4. QED
      BY <1>1, <3>2, <3>3 DEF TypeOK
  <2>3. ASSUME NEW d \in Callers, Poll(d) PROVE logId'[c] = logId[c]
    <3>1. PICK r \in Matching(d) : logId' = [logId EXCEPT ![d] = r]
      BY <2>3 DEF Poll
    <3>2. logId[d] # NoLog => r = logId[d]
      BY <1>1, <3>1, MatchingRecent DEF Followed
    <3>3. QED
      BY <1>1, <3>1, <3>2 DEF TypeOK
  <2>4. QED
    BY <1>1, <2>1, <2>2, <2>3 DEF Next, TenantStep, StartedByOthers, Appears, Ends,
       callVars, Answered, ReadLogs, StartRefused, Fetched, PollTimesOut, Raises,
       Cancelled, Finished, vars
<1>2. TypeOK /\ Logged /\ Followed /\ [Next]_vars =>
        [\A c \in Callers : logId[c] # NoLog => logId'[c] = logId[c]]_vars
  BY <1>1
<1>3. QED
  BY <1>2, TypeCorrect, FollowedCorrect, PTL DEF Spec, FollowsOneRun
=============================================================================
