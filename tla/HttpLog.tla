------------------------------- MODULE HttpLog -------------------------------
(***************************************************************************)
(* The log of requests and responses: files of numbered lines.  One thread *)
(* starts and stops the logging; it and others record events.  Recording   *)
(* takes the current log without a lock and writes to it under the lock of *)
(* that log, so that the log may be closed, and another started, between   *)
(* the two.  A log that cannot write switches itself off.                  *)
(*                                                                         *)
(* One lock is held for one step only, and never two at once, so that      *)
(* writing an event is one action.                                         *)
(***************************************************************************)
EXTENDS Naturals, Sequences

CONSTANTS Threads,    \* threads that record requests and responses
          MaxLogs,    \* bound on starts of the logging
          MaxEvents   \* bound on events of each thread

ASSUME LogsAssumption == MaxLogs \in Nat /\ MaxEvents \in Nat

VARIABLES current,   \* the log that is taken for recording, or 0
          log,       \* the logs, by number
          holds,     \* the log a thread took, or 0
          events,    \* events a thread recorded
          control    \* what the thread that starts and stops does

logVars == <<current, log, holds, events, control>>

Logs == 1..MaxLogs
Lines == [sequence : Nat, event : {"run_started", "http", "run_finished"},
          count : Nat, whole : BOOLEAN]

LogTypeOK ==
  /\ current \in 0..MaxLogs
  /\ log \in [Logs -> [file : {"none", "open", "off", "closed"}, sequence : Nat,
                       lines : Seq(Lines), raced : BOOLEAN]]
  /\ holds \in [Threads -> 0..MaxLogs]
  /\ events \in [Threads -> 0..MaxEvents]
  /\ control \in [place : {"idle", "started", "counted", "finished", "closing"},
                  log : 0..MaxLogs, count : Nat]

LogInit ==
  /\ current = 0
  /\ log = [l \in Logs |-> [file |-> "none", sequence |-> 0, lines |-> <<>>,
                            raced |-> FALSE]]
  /\ holds = [t \in Threads |-> 0]
  /\ events = [t \in Threads |-> 0]
  /\ control = [place |-> "idle", log |-> 0, count |-> 0]

-----------------------------------------------------------------------------
(* An event is written, or the log switches itself off, with nothing or a  *)
(* part of the line in the file; a closed log takes nothing.  The race of  *)
(* a record with the closing count is noted in raced.                      *)
Line(l, event, count, whole) ==
  [sequence |-> log[l].sequence + 1, event |-> event, count |-> count,
   whole |-> whole]
Races(l, event) == log[l].raced \/ (control.place = "counted" /\ event = "http")

(* Mutant: a log that cannot write goes on.                                *)
WriteRegardless(l, event, count) ==
  IF log[l].file # "open" THEN UNCHANGED log
  ELSE \/ log' = [log EXCEPT ![l].sequence = @ + 1, ![l].raced = Races(l, event),
                    ![l].lines = Append(@, Line(l, event, count, TRUE))]
       \/ log' = [log EXCEPT ![l].sequence = @ + 1]

Write(l, event, count) ==
  IF log[l].file # "open" THEN UNCHANGED log
  ELSE \/ log' = [log EXCEPT ![l].sequence = @ + 1, ![l].raced = Races(l, event),
                    ![l].lines = Append(@, Line(l, event, count, TRUE))]
       \/ \E part \in {<<>>, <<Line(l, event, count, FALSE)>>} :
            log' = [log EXCEPT ![l].sequence = @ + 1, ![l].file = "off",
                      ![l].lines = @ \o part]

(* A request or a response: the current log is taken, then written to.     *)
Take(t) ==
  /\ holds[t] = 0 /\ current # 0 /\ events[t] < MaxEvents
  /\ holds' = [holds EXCEPT ![t] = current]
  /\ UNCHANGED <<current, log, events, control>>

Record(t) ==
  /\ holds[t] # 0
  /\ Write(holds[t], "http", 0)
  /\ holds' = [holds EXCEPT ![t] = 0]
  /\ events' = [events EXCEPT ![t] = @ + 1]
  /\ UNCHANGED <<current, control>>

-----------------------------------------------------------------------------
(* The logging starts, after it stopped when it was going: the new log is  *)
(* there for others before its opening event.                              *)
At(place) == control' = [control EXCEPT !.place = place]

StartLog ==
  /\ control.place = "idle" /\ current = 0
  /\ \E l \in Logs :
       /\ log[l].file = "none" /\ \A k \in 1..l-1 : log[k].file # "none"
       /\ log' = [log EXCEPT ![l].file = "open"]
       /\ current' = l
       /\ control' = [control EXCEPT !.place = "started", !.log = l]
  /\ UNCHANGED <<holds, events>>

Started ==
  /\ control.place = "started"
  /\ Write(current, "run_started", 0)
  /\ At("idle")
  /\ UNCHANGED <<current, holds, events>>

(* It stops: the events are counted without the lock, the closing event is *)
(* recorded, the log is taken away from the others and then closed.        *)
Count ==
  /\ control.place = "idle" /\ current # 0
  /\ control' = [control EXCEPT !.place = "counted",
                                !.count = log[current].sequence + 1]
  /\ UNCHANGED <<current, log, holds, events>>

FinishedLog ==
  /\ control.place = "counted"
  /\ Write(current, "run_finished", control.count)
  /\ At("finished")
  /\ UNCHANGED <<current, holds, events>>

TakenAway ==
  /\ control.place = "finished"
  /\ current' = 0
  /\ At("closing")
  /\ UNCHANGED <<log, holds, events>>

CloseLog ==
  /\ control.place = "closing"
  /\ log' = [log EXCEPT ![control.log].file = IF @ = "open" THEN "closed" ELSE @]
  /\ At("idle")
  /\ UNCHANGED <<current, holds, events>>

LogNext ==
  \/ \E t \in Threads : Take(t) \/ Record(t)
  \/ StartLog \/ Started \/ Count \/ FinishedLog \/ TakenAway \/ CloseLog

LogSpec == LogInit /\ [][LogNext]_logVars

-----------------------------------------------------------------------------
(* A log can be read: its lines are numbered without a gap whoever wrote   *)
(* them, and only the last line of a log that switched itself off is torn; *)
(* one closing event ends it, but for records that had taken the log       *)
(* before, and its count is its own number, but for those that were        *)
(* written since they were counted (write, stop_http_logging).             *)
LogReads ==
  \A l \in Logs :
    LET lines == log[l].lines
        closing == {k \in 1..Len(lines) : lines[k].event = "run_finished"}
    IN  /\ \A k \in 1..Len(lines) :
             /\ lines[k].sequence = k
             /\ ~lines[k].whole => k = Len(lines) /\ log[l].file = "off"
        /\ \A k \in closing :
             /\ \A j \in closing : j = k
             /\ \A j \in k+1..Len(lines) : lines[j].event = "http"
             /\ lines[k].count <= k
             /\ ~log[l].raced => lines[k].count = k
        /\ log[l].file = "closed" => closing # {}

=============================================================================
