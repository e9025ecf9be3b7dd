----------------------------- MODULE SessionTokens -----------------------------
(***************************************************************************)
(* Signing in and out of one tenant (datasphere_core/session): the two     *)
(* locks of DatasphereSession.authenticate and logout, the refresh token   *)
(* in the credential store of the operating system, and the token endpoint *)
(* that may replace a refresh token whenever it is used.                   *)
(*                                                                         *)
(* Sessions live in processes of their own and share the store and the     *)
(* lock file.  KeyringTokenStore writes in a thread: cancelling the        *)
(* coroutine that awaits it does not stop the thread.  AsyncFileLock tries *)
(* to take the lock file in a thread as well: if its caller is cancelled,  *)
(* the thread may still take it, for nobody.                               *)
(***************************************************************************)
EXTENDS Integers, FiniteSets

CONSTANTS
  Sessions,     (* sessions, each in a process of its own                   *)
  Callers,      (* coroutines that use a session                            *)
  SessionOf,    (* session each caller uses                                 *)
  Nobody,       (* no caller                                                *)
  MaxCalls,     (* bound: calls of each caller                              *)
  MaxCancels,   (* bound: cancellations                                     *)
  MaxCrashes    (* bound: processes that die, and are started again         *)

ASSUME SessionAssumption == SessionOf \in [Callers -> Sessions]
ASSUME NobodyAssumption == Nobody \notin Callers
ASSUME BoundAssumption ==
  MaxCalls \in Nat /\ MaxCancels \in Nat /\ MaxCrashes \in Nat

NoToken == 0   (* refresh tokens are numbered in the order they are issued *)

VARIABLES
  place,    (* where each caller is suspended                               *)
  call,     (* what it called                                               *)
  token,    (* refresh token it read from the store or was given            *)
  result,   (* how its last call ended                                      *)
  calls,    (* calls it made                                                *)
  owner,    (* caller holding the lock of each session                      *)
  holders,  (* callers holding the lock file                                *)
  client,   (* HTTP client of each session                                  *)
  store,    (* refresh token in the credential store                        *)
  writes,   (* writes to the store that are going on in some thread         *)
  valid,    (* refresh tokens the endpoint accepts                          *)
  issued,   (* refresh tokens issued so far                                 *)
  cancels,  (* cancellations so far                                         *)
  crashes,  (* crashes so far                                               *)
  tries,    (* threads of each session that will still try to take the lock *)
            (* file for a caller that was cancelled                         *)
  stray     (* sessions that hold the lock file on behalf of no caller      *)

callerVars == <<place, call, token, result, calls>>
lockVars == <<owner, holders>>
storeVars == <<store, writes>>
endpointVars == <<valid, issued>>
faultVars == <<cancels, crashes, tries, stray>>
vars == <<callerVars, lockVars, client, storeVars, endpointVars, faultVars>>

Inside == {"loading", "refreshing", "login", "saving", "reading", "deleting"}
Place == {"idle", "own", "file"} \cup Inside
Calls == {"authenticate", "authenticate_interactively", "logout"}
Result == {"none", "done", "error", "cancelled"}

Of(c) == SessionOf[c]
InSession(s) == {c \in Callers : Of(c) = s}

(* A write is awaited by its caller, unless the caller was cancelled.      *)
Write(c, t) == [by |-> c, value |-> t, awaited |-> TRUE]
Orphan(w) == [w EXCEPT !.awaited = FALSE]
Awaited(c) == {w \in writes : w.by = c /\ w.awaited}

-----------------------------------------------------------------------------
Init ==
  /\ place = [c \in Callers |-> "idle"]
  /\ call = [c \in Callers |-> "logout"]
  /\ token = [c \in Callers |-> NoToken]
  /\ result = [c \in Callers |-> "none"]
  /\ calls = [c \in Callers |-> 0]
  /\ owner = [s \in Sessions |-> Nobody]
  /\ holders = {}
  /\ client = [s \in Sessions |-> "absent"]
  /\ store \in {NoToken, 1}
  /\ writes = {}
  /\ valid \in SUBSET {1}
  /\ issued = 1
  /\ cancels = 0
  /\ crashes = 0
  /\ tries = [s \in Sessions |-> 0]
  /\ stray = {}

-----------------------------------------------------------------------------
(* The locks.                                                              *)

Go(c, p) == place' = [place EXCEPT ![c] = p]

(* Mutant: the locks are left only when the call succeeds.                 *)
LeaveWhenDone(c, r) ==
  /\ Go(c, "idle")
  /\ result' = [result EXCEPT ![c] = r]
  /\ owner' = [owner EXCEPT ![Of(c)] = IF @ = c /\ r = "done" THEN Nobody ELSE @]
  /\ holders' = IF r = "done" THEN holders \ {c} ELSE holders

(* Both locks are left on every way out of the call.                       *)
Leave(c, r) ==
  /\ Go(c, "idle")
  /\ result' = [result EXCEPT ![c] = r]
  /\ owner' = [owner EXCEPT ![Of(c)] = IF @ = c THEN Nobody ELSE @]
  /\ holders' = holders \ {c}

Call(c, what) ==
  /\ place[c] = "idle" /\ calls[c] < MaxCalls
  /\ calls' = [calls EXCEPT ![c] = @ + 1]
  /\ call' = [call EXCEPT ![c] = what]
  /\ token' = [token EXCEPT ![c] = NoToken]
  /\ result' = [result EXCEPT ![c] = "none"]
  /\ Go(c, "own")
  /\ UNCHANGED <<lockVars, client, storeVars, endpointVars, faultVars>>

(* Mutant: callers of one session do not wait for each other. *)
EnterSession(c) ==
  /\ place[c] = "own"
  /\ owner' = [owner EXCEPT ![Of(c)] = c]
  /\ Go(c, "file")
  /\ UNCHANGED <<call, token, result, calls, holders, client, storeVars,
                 endpointVars, faultVars>>

AcquireOwn(c) ==
  /\ place[c] = "own" /\ owner[Of(c)] = Nobody
  /\ owner' = [owner EXCEPT ![Of(c)] = c]
  /\ Go(c, "file")
  /\ UNCHANGED <<call, token, result, calls, holders, client, storeVars,
                 endpointVars, faultVars>>

(* A session other than the caller's holds the lock file for nobody.       *)
Abandoned(c) == \E s \in stray : s # Of(c)

(* The file lock keeps out other processes only: within one session it is  *)
(* reentrant, also for the caller that finds it taken for nobody, and that *)
(* frees it when it leaves.  An authentication then creates the client if  *)
(* there is none.                                                          *)
AcquireFile(c) ==
  /\ place[c] = "file"
  /\ \A d \in holders : Of(d) = Of(c)
  /\ ~Abandoned(c)
  /\ holders' = holders \cup {c}
  /\ stray' = {}
  /\ IF call[c] = "logout"
       THEN Go(c, "reading") /\ UNCHANGED client
       ELSE /\ Go(c, "loading")
            /\ client' = [client EXCEPT ![Of(c)] = IF @ = "absent" THEN "bare" ELSE @]
  /\ UNCHANGED <<call, token, result, calls, owner, storeVars, endpointVars,
                 cancels, crashes, tries>>

-----------------------------------------------------------------------------
(* authenticate.                                                           *)

(* _login without a usable refresh token: a new login or an error.         *)
Fallback(c) ==
  IF call[c] = "authenticate_interactively"
    THEN Go(c, "login") /\ UNCHANGED <<result, lockVars>>
    ELSE Leave(c, "error")

(* _login with new tokens: the client sends the access token from now on,  *)
(* and the refresh token is handed to the store.                           *)
Apply(c, t) ==
  /\ client' = [client EXCEPT ![Of(c)] = "bearer"]
  /\ token' = [token EXCEPT ![c] = t]
  /\ Go(c, "saving")
  /\ writes' = writes \cup {Write(c, t)}

(* load_tokens returned. *)
Loaded(c) ==
  /\ place[c] = "loading"
  /\ token' = [token EXCEPT ![c] = store]
  /\ IF store # NoToken
       THEN Go(c, "refreshing") /\ UNCHANGED <<result, lockVars>>
       ELSE Fallback(c)
  /\ UNCHANGED <<call, calls, client, storeVars, endpointVars, faultVars>>

(* The endpoint (external) accepts the token and may replace it by a new   *)
(* one; then the old one is worth nothing.                                 *)
Honoured(c, t) ==
  \/ t = token[c] /\ UNCHANGED endpointVars
  \/ /\ t = issued + 1
     /\ issued' = t
     /\ valid' = (valid \ {token[c]}) \cup {t}

(* Mutant: the token that was used is kept, also if it was replaced.       *)
RefreshedKeepsOld(c) ==
  /\ place[c] = "refreshing" /\ token[c] \in valid
  /\ \E t \in {token[c], issued + 1} : Honoured(c, t) /\ Apply(c, token[c])
  /\ UNCHANGED <<call, result, calls, lockVars, store, faultVars>>

Refreshed(c) ==
  /\ place[c] = "refreshing" /\ token[c] \in valid
  /\ \E t \in {token[c], issued + 1} : Honoured(c, t) /\ Apply(c, t)
  /\ UNCHANGED <<call, result, calls, lockVars, store, faultVars>>

(* refresh_tokens returned None: the token was refused, or the request     *)
(* failed, perhaps after the endpoint had honoured it.                     *)
NotRefreshed(c) ==
  /\ place[c] = "refreshing"
  /\ \/ UNCHANGED endpointVars
     \/ token[c] \in valid /\ Honoured(c, issued + 1)
  /\ Fallback(c)
  /\ UNCHANGED <<call, token, calls, client, storeVars, faultVars>>

(* authenticate_interactively returned tokens.  Without a refresh token    *)
(* among them there is nothing to save.                                    *)
LoggedIn(c) ==
  /\ place[c] = "login"
  /\ \/ /\ issued' = issued + 1 /\ valid' = valid \cup {issued'}
        /\ Apply(c, issued')
        /\ UNCHANGED <<result, lockVars>>
     \/ /\ client' = [client EXCEPT ![Of(c)] = "bearer"]
        /\ token' = [token EXCEPT ![c] = NoToken]
        /\ Leave(c, "done")
        /\ UNCHANGED <<writes, endpointVars>>
  /\ UNCHANGED <<call, calls, store, faultVars>>

(* Mutant: save_tokens is not awaited.                                     *)
SavedAtOnce(c) ==
  /\ place[c] = "saving"
  /\ Leave(c, "done")
  /\ UNCHANGED <<call, token, calls, client, storeVars, endpointVars, faultVars>>

(* save_tokens returned. *)
Saved(c) ==
  /\ place[c] = "saving" /\ Awaited(c) = {}
  /\ Leave(c, "done")
  /\ UNCHANGED <<call, token, calls, client, storeVars, endpointVars, faultVars>>

-----------------------------------------------------------------------------
(* logout: nothing to delete, or the entry is deleted.  Either way the     *)
(* client forgets its access token.                                        *)
Forget(c) ==
  client' = [client EXCEPT ![Of(c)] = IF @ = "absent" THEN @ ELSE "bare"]

DeleteRead(c) ==
  /\ place[c] = "reading"
  /\ IF store = NoToken
       THEN Leave(c, "done") /\ Forget(c) /\ UNCHANGED writes
       ELSE /\ Go(c, "deleting")
            /\ writes' = writes \cup {Write(c, NoToken)}
            /\ UNCHANGED <<result, lockVars, client>>
  /\ UNCHANGED <<call, token, calls, store, endpointVars, faultVars>>

Deleted(c) ==
  /\ place[c] = "deleting" /\ Awaited(c) = {}
  /\ Leave(c, "done")
  /\ Forget(c)
  /\ UNCHANGED <<call, token, calls, storeVars, endpointVars, faultVars>>

(* The store cannot be read, the login is not completed, or the endpoint   *)
(* does not answer with tokens.                                            *)
Raises(c) ==
  /\ place[c] \in {"loading", "login", "reading"}
  /\ Leave(c, "error")
  /\ UNCHANGED <<call, token, calls, client, storeVars, endpointVars, faultVars>>

-----------------------------------------------------------------------------
(* The threads of the credential store (external).                         *)

Written(w) ==
  /\ store' = w.value
  /\ writes' = writes \ {w}
  /\ UNCHANGED <<callerVars, lockVars, client, endpointVars, faultVars>>

NotWritten(w) ==
  /\ writes' = writes \ {w}
  /\ IF w.awaited THEN Leave(w.by, "error") ELSE UNCHANGED <<place, result, lockVars>>
  /\ UNCHANGED <<call, token, calls, client, store, endpointVars, faultVars>>

(* A thread of AsyncFileLock (external) tries once to take the lock file   *)
(* for a caller that is gone.                                              *)
Tried(s) ==
  /\ tries[s] > 0
  /\ tries' = [tries EXCEPT ![s] = @ - 1]
  /\ stray' = IF holders = {} /\ stray = {} THEN {s} ELSE stray
  /\ UNCHANGED <<callerVars, lockVars, client, storeVars, endpointVars,
                 cancels, crashes>>

ThreadStep ==
  \/ \E w \in writes : Written(w) \/ NotWritten(w)
  \/ \E s \in Sessions : Tried(s)

-----------------------------------------------------------------------------
(* A caller is cancelled: it leaves the locks it has, while a thread it    *)
(* awaited goes on unless it had not begun: one that writes to the store,  *)
(* or one that tries to take the lock file.  A refresh may have been       *)
(* honoured.                                                               *)
Cancel(c) ==
  /\ place[c] # "idle" /\ cancels < MaxCancels
  /\ cancels' = cancels + 1
  /\ Leave(c, "cancelled")
  /\ \E going \in BOOLEAN :
       /\ writes' = (writes \ Awaited(c)) \cup
                      (IF going THEN {Orphan(w) : w \in Awaited(c)} ELSE {})
       /\ tries' = IF going /\ place[c] = "file"
                     THEN [tries EXCEPT ![Of(c)] = @ + 1] ELSE tries
  /\ \/ UNCHANGED endpointVars
     \/ place[c] = "refreshing" /\ token[c] \in valid /\ Honoured(c, issued + 1)
  /\ UNCHANGED <<call, token, calls, client, store, crashes, stray>>

(* A process dies, or ends while it has the lock file for nobody: so do    *)
(* its threads, and the operating system frees the lock file.  Started     *)
(* again, it has no client.                                                *)
Crash(s) ==
  /\ s \in stray \/ \E c \in InSession(s) : place[c] # "idle"
  /\ crashes < MaxCrashes
  /\ crashes' = crashes + 1
  /\ place' = [c \in Callers |-> IF Of(c) = s THEN "idle" ELSE place[c]]
  /\ result' = [c \in Callers |-> IF Of(c) = s THEN "none" ELSE result[c]]
  /\ owner' = [owner EXCEPT ![s] = Nobody]
  /\ holders' = holders \ InSession(s)
  /\ client' = [client EXCEPT ![s] = "absent"]
  /\ writes' = {w \in writes : Of(w.by) # s}
  /\ tries' = [tries EXCEPT ![s] = 0]
  /\ stray' = stray \ {s}
  /\ UNCHANGED <<call, token, calls, store, endpointVars, cancels>>

-----------------------------------------------------------------------------
CallerStep(c) ==
  \/ AcquireOwn(c) \/ AcquireFile(c) \/ Loaded(c) \/ Refreshed(c)
  \/ NotRefreshed(c) \/ LoggedIn(c) \/ Saved(c) \/ DeleteRead(c)
  \/ Deleted(c) \/ Raises(c)

(* A caller that waits for the process that has the lock file for nobody.  *)
WaitsForNobody(c) == place[c] \in {"own", "file"} /\ Abandoned(c)

(* Nobody has anything left to do, except to wait for such a process.      *)
Finished ==
  /\ \A c \in Callers :
       (place[c] = "idle" /\ calls[c] = MaxCalls) \/ WaitsForNobody(c)
  /\ writes = {} /\ \A s \in Sessions : tries[s] = 0
  /\ UNCHANGED vars

Next ==
  \/ \E c \in Callers :
       CallerStep(c) \/ Cancel(c) \/ \E what \in Calls : Call(c, what)
  \/ \E s \in Sessions : Crash(s)
  \/ ThreadStep
  \/ Finished

Spec == Init /\ [][Next]_vars

(* Requests, logins and threads end; the locks are taken when they are     *)
(* free.  Nobody need call anything.                                       *)
FairSpec ==
  /\ Spec
  /\ \A c \in Callers : WF_vars(CallerStep(c))
  /\ WF_vars(ThreadStep)

-----------------------------------------------------------------------------
(* Every variable keeps its type. *)
TypeOK ==
  /\ place \in [Callers -> Place]
  /\ call \in [Callers -> Calls]
  /\ token \in [Callers -> 0..issued]
  /\ result \in [Callers -> Result]
  /\ calls \in [Callers -> 0..MaxCalls]
  /\ owner \in [Sessions -> Callers \cup {Nobody}]
  /\ holders \subseteq Callers
  /\ client \in [Sessions -> {"absent", "bare", "bearer"}]
  /\ store \in 0..issued
  /\ writes \subseteq [by : Callers, value : 0..issued, awaited : BOOLEAN]
  /\ valid \subseteq 1..issued
  /\ issued \in Nat
  /\ cancels \in 0..MaxCancels
  /\ crashes \in 0..MaxCrashes
  /\ tries \in [Sessions -> Nat]
  /\ stray \subseteq Sessions

(* One caller at a time works on the tokens, whatever sessions they use,   *)
(* and also after callers were cancelled and processes died.               *)
Working == {c \in Callers : place[c] \in Inside}
OneAtATime == Cardinality(Working) <= 1 /\ Working = holders

(* While nobody is cancelled, only the caller at work has a write going.   *)
WritesAreGuarded ==
  cancels = 0 => \A w \in writes : w.awaited /\ w.by \in Working

(* A call that authenticated leaves a store the next start can use: the    *)
(* token it holds is one the endpoint accepts, whether the endpoint        *)
(* replaced it or not.                                                     *)
AuthenticatedIsUsable ==
  [][cancels' = 0 =>
       \A c \in Callers :
         call[c] # "logout" /\ token'[c] # NoToken
         /\ result[c] # "done" /\ result'[c] = "done"
         => store' = token[c] /\ store' \in valid']_vars

(* Logged out is logged out: while nobody is cancelled, the store stays    *)
(* empty until somebody authenticates.                                     *)
LogoutSticks ==
  [][cancels = 0 /\ store = NoToken /\ store' # NoToken =>
       \E c \in Working : call[c] # "logout"]_vars

(* Every call ends, unless a process took the lock file for a caller that  *)
(* was cancelled and neither uses its session again nor ends.              *)
CallsEnd ==
  \A c \in Callers : place[c] # "idle" ~> place[c] = "idle" \/ WaitsForNobody(c)
=============================================================================
