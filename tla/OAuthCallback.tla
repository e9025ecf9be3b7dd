---------------------------- MODULE OAuthCallback ----------------------------
(***************************************************************************)
(* The interactive login: a browser is opened, and a server in a thread of *)
(* its own waits for the callback that brings the authorization code.  The *)
(* thread writes to a dictionary and wakes the event loop; the wait of the *)
(* loop times out.  The browser and the server are closed however the wait *)
(* ends, and only then is the code exchanged for tokens.                   *)
(*                                                                         *)
(* The server serves one connection after the other.  A connection that    *)
(* sends nothing keeps it, until the browser is closed.                    *)
(***************************************************************************)
EXTENDS Naturals

CONSTANTS Codes,        \* authorization codes delivered with the own state
          NoCode,
          MaxCallbacks  \* bound on connections to the server

ASSUME CodesAssumption == NoCode \notin Codes
ASSUME CallbacksAssumption == MaxCallbacks \in Nat

VARIABLES login,     \* the call: its place, how the wait ended, its result
          browser,   \* whether the browser is open
          server,    \* what the server's thread does, and with which request
          callback,  \* the dictionary they share
          wakes,     \* whether a wake-up of the loop is scheduled
          received,  \* whether the event is set
          arrived    \* connections so far

loginVars == <<login, browser, server, callback, wakes, received, arrived>>

(* Requests: another path or state, an error, a code, no code; or nothing. *)
Requests ==
  [kind : {"path", "state", "idle", "error", "codeless"}, code : {NoCode}]
    \cup [kind : {"code"}, code : Codes]
Own == {"error", "codeless", "code"}
Nothing == [kind |-> "none", code |-> NoCode]
Outcomes == {"none", "code", "timeout", "rejected", "failed", "cancelled", "tokens"}

LoginTypeOK ==
  /\ login \in [place : {"new", "opening", "waiting", "closing", "stopping",
                         "exchanging", "over"}, outcome : Outcomes]
  /\ browser \in BOOLEAN
  /\ server \in [thread : {"none", "listening", "reading", "answering"},
                 request : Requests \cup {Nothing}]
  /\ callback \in [code : Codes \cup {NoCode}, error : BOOLEAN]
  /\ wakes \in BOOLEAN /\ received \in BOOLEAN
  /\ arrived \in 0..MaxCallbacks

LoginInit ==
  /\ login = [place |-> "new", outcome |-> "none"]
  /\ browser = FALSE
  /\ server = [thread |-> "none", request |-> Nothing]
  /\ callback = [code |-> NoCode, error |-> FALSE]
  /\ wakes = FALSE /\ received = FALSE
  /\ arrived = 0

Moves(place, outcome) == login' = [place |-> place, outcome |-> outcome]
OnlyLogin == UNCHANGED <<browser, server, callback, wakes, received, arrived>>

-----------------------------------------------------------------------------
(* The server is started, which fails when its port is taken, and the      *)
(* browser is opened.                                                      *)
Serve ==
  /\ login.place = "new"
  /\ \/ /\ Moves("opening", "none")
        /\ server' = [server EXCEPT !.thread = "listening"]
     \/ Moves("over", "failed") /\ UNCHANGED server
  /\ UNCHANGED <<browser, callback, wakes, received, arrived>>

OpenBrowser ==
  /\ login.place = "opening"
  /\ \/ Moves("waiting", "none") /\ browser' = TRUE
     \/ Moves("closing", "failed") /\ browser' \in BOOLEAN
  /\ UNCHANGED <<server, callback, wakes, received, arrived>>

(* The wait ends: by the event, after which an error counts before a code, *)
(* by the timeout, or because the call is cancelled.                       *)
(* Mutant: an error is not looked at.                                      *)
WaitEndsBlind ==
  /\ login.place = "waiting" /\ received
  /\ Moves("closing", "code")
  /\ OnlyLogin

WaitEnds ==
  /\ login.place = "waiting" /\ received
  /\ Moves("closing", IF callback.error THEN "rejected" ELSE "code")
  /\ OnlyLogin

TimesOut ==
  /\ login.place = "waiting"
  /\ Moves("closing", "timeout")
  /\ OnlyLogin

CancelLogin ==
  /\ login.place \in {"opening", "waiting", "closing", "exchanging"}
  /\ Moves(IF login.place = "exchanging" THEN "over" ELSE "closing", "cancelled")
  /\ OnlyLogin

CloseBrowser ==
  /\ login.place = "closing"
  /\ Moves("stopping", login.outcome)
  /\ browser' = FALSE
  /\ UNCHANGED <<server, callback, wakes, received, arrived>>

(* The loop itself waits for the server to finish its request.             *)
StopServer ==
  /\ login.place = "stopping" /\ server.thread = "listening"
  /\ server' = [server EXCEPT !.thread = "none"]
  /\ Moves(IF login.outcome = "code" THEN "exchanging" ELSE "over", login.outcome)
  /\ UNCHANGED <<browser, callback, wakes, received, arrived>>

Exchange ==
  /\ login.place = "exchanging"
  /\ \E outcome \in {"tokens", "failed"} : Moves("over", outcome)
  /\ OnlyLogin

-----------------------------------------------------------------------------
(* The thread of the server: a request is read; what it brings is noted;   *)
(* it is answered, and the loop is woken unless the answer fails.          *)
Arrive ==
  /\ server.thread = "listening" /\ arrived < MaxCallbacks
  /\ \E r \in Requests : server' = [thread |-> "reading", request |-> r]
  /\ arrived' = arrived + 1
  /\ UNCHANGED <<login, browser, callback, wakes, received>>

Noted(r) ==
  IF r.kind = "code" THEN [callback EXCEPT !.code = r.code]
  ELSE IF r.kind \in Own THEN [callback EXCEPT !.error = TRUE]
  ELSE callback

Note ==
  /\ server.thread = "reading"
  /\ server.request.kind = "idle" => ~browser
  /\ callback' = Noted(server.request)
  /\ server' = [server EXCEPT !.thread = "answering"]
  /\ UNCHANGED <<login, browser, wakes, received, arrived>>

Answer ==
  /\ server.thread = "answering"
  /\ server' = [thread |-> "listening", request |-> Nothing]
  /\ \/ wakes' = (wakes \/ server.request.kind \in Own)
     \/ UNCHANGED wakes
  /\ UNCHANGED <<login, browser, callback, received, arrived>>

Wake ==
  /\ wakes /\ login.place # "stopping"
  /\ wakes' = FALSE
  /\ received' = TRUE
  /\ UNCHANGED <<login, browser, server, callback, arrived>>

LoginNext ==
  \/ Serve \/ OpenBrowser \/ WaitEnds \/ TimesOut \/ CancelLogin
  \/ CloseBrowser \/ StopServer \/ Exchange
  \/ Arrive \/ Note \/ Answer \/ Wake

LoginSpec == LoginInit /\ [][LoginNext]_loginVars

-----------------------------------------------------------------------------
(* A code is exchanged only when one came with the own state, whatever     *)
(* came next to it and however late, and with the browser and the server   *)
(* gone; and nothing of a login outlives the call, however it ends.        *)
LoginIsSettled ==
  /\ login.place = "exchanging" \/ login.outcome = "tokens" => callback.code \in Codes
  /\ login.place \in {"exchanging", "over"} => ~browser /\ server.thread = "none"

=============================================================================
