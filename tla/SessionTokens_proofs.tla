------------------------- MODULE SessionTokens_proofs -------------------------
(***************************************************************************)
(* Proofs about SessionTokens, for any number of processes, coroutines,    *)
(* calls, cancellations and crashes: one caller at a time works on the     *)
(* tokens, and what it leaves in the store is what the next start needs.   *)
(***************************************************************************)
EXTENDS SessionTokens, FiniteSetTheorems, TLAPS

(* The types of what both locks guard, one variable group at a time.       *)
CallersOK ==
  /\ place \in [Callers -> Place]
  /\ result \in [Callers -> Result]
  /\ owner \in [Sessions -> Callers \cup {Nobody}]
  /\ holders \subseteq Callers

TokensOK ==
  /\ token \in [Callers -> 0..issued]
  /\ store \in 0..issued
  /\ writes \subseteq [by : Callers, value : 0..issued, awaited : BOOLEAN]
  /\ valid \subseteq 1..issued
  /\ issued \in Nat

OthersOK ==
  /\ call \in [Callers -> Calls]
  /\ calls \in [Callers -> 0..MaxCalls]
  /\ client \in [Sessions -> {"absent", "bare", "bearer"}]
  /\ cancels \in 0..MaxCancels
  /\ crashes \in 0..MaxCrashes
  /\ tries \in [Sessions -> Nat]
  /\ stray \subseteq Sessions

Types == CallersOK /\ TokensOK /\ OthersOK

LEMMA GoType ==
  ASSUME CallersOK, NEW c \in Callers, NEW p \in Place, Go(c, p),
         UNCHANGED <<result, lockVars>>
  PROVE  CallersOK'
  BY DEF CallersOK, Go, lockVars

LEMMA LeaveType ==
  ASSUME CallersOK, NEW c \in Callers, NEW r \in Result, Leave(c, r)
  PROVE  CallersOK'
<1>1. Of(c) \in Sessions
  BY SessionAssumption DEF Of
<1>2. place' \in [Callers -> Place] /\ result' \in [Callers -> Result]
  BY DEF CallersOK, Leave, Go, Place
<1>3. owner' \in [Sessions -> Callers \cup {Nobody}]
  BY <1>1 DEF CallersOK, Leave
<1>4. holders' \subseteq Callers
  BY DEF CallersOK, Leave
<1>5. QED
  BY <1>2, <1>3, <1>4 DEF CallersOK

LEMMA FallbackType ==
  ASSUME CallersOK, NEW c \in Callers, Fallback(c)
  PROVE  CallersOK'
<1>1. CASE call[c] = "authenticate_interactively"
  BY <1>1, GoType DEF Fallback, Place, Inside
<1>2. CASE call[c] # "authenticate_interactively"
  BY <1>2, LeaveType DEF Fallback, Result
<1>3. QED
  BY <1>1, <1>2

(* Tokens stay what they are while new ones are issued.                    *)
LEMMA HonouredType ==
  ASSUME TokensOK, NEW c \in Callers, NEW t \in {token[c], issued + 1},
         token[c] \in valid, Honoured(c, t)
  PROVE  /\ issued' \in Nat /\ issued <= issued'
         /\ t \in 0..issued' /\ valid' \subseteq 1..issued'
         /\ t \in valid' /\ t # NoToken
<1>1. issued \in Nat /\ valid \subseteq 1..issued /\ token[c] \in 1..issued
  BY DEF TokensOK
<1>2. CASE t = token[c] /\ UNCHANGED endpointVars
  BY <1>1, <1>2 DEF endpointVars, NoToken
<1>3. CASE t = issued + 1 /\ issued' = t /\ valid' = (valid \ {token[c]}) \cup {t}
  <2>1. 1..issued \subseteq 1..issued' /\ t \in 1..issued'
    BY <1>1, <1>3
  <2>2. valid' \subseteq 1..issued' /\ t \in valid'
    BY <1>1, <1>3, <2>1
  <2>3. t \in 0..issued' /\ issued' \in Nat /\ issued <= issued' /\ t # 0
    BY <1>1, <1>3
  <2>4. QED
    BY <2>2, <2>3 DEF NoToken
<1>4. QED
  BY <1>2, <1>3 DEF Honoured

LEMMA TokensKept ==
  ASSUME TokensOK, issued' \in Nat, issued <= issued', valid' \subseteq 1..issued',
         UNCHANGED <<token, storeVars>>
  PROVE  TokensOK'
<1>1. 0..issued \subseteq 0..issued'
  BY DEF TokensOK
<1>2. token' \in [Callers -> 0..issued']
  BY <1>1 DEF TokensOK
<1>3. writes' \subseteq [by : Callers, value : 0..issued', awaited : BOOLEAN]
  BY <1>1 DEF TokensOK, storeVars
<1>4. QED
  BY <1>1, <1>2, <1>3 DEF TokensOK, storeVars

LEMMA ApplyType ==
  ASSUME TokensOK, OthersOK, CallersOK, NEW c \in Callers, NEW t,
         issued' \in Nat, issued <= issued', valid' \subseteq 1..issued',
         t \in 0..issued', Apply(c, t), store' = store,
         UNCHANGED <<result, lockVars>>
  PROVE  /\ TokensOK' /\ CallersOK'
         /\ client' \in [Sessions -> {"absent", "bare", "bearer"}]
<1>1. 0..issued \subseteq 0..issued'
  BY DEF TokensOK
<1>2. token' \in [Callers -> 0..issued']
  BY <1>1 DEF TokensOK, Apply
<1>3. Write(c, t) \in [by : Callers, value : 0..issued', awaited : BOOLEAN]
  BY DEF Write
<1>4. writes' \subseteq [by : Callers, value : 0..issued', awaited : BOOLEAN]
  BY <1>1, <1>3 DEF TokensOK, Apply
<1>5. CallersOK'
  BY GoType DEF Apply, Place, Inside
<1>6. client' \in [Sessions -> {"absent", "bare", "bearer"}]
  BY DEF Apply, OthersOK
<1>7. QED
  BY <1>1, <1>2, <1>4, <1>5, <1>6 DEF TokensOK

LEMMA TypeCaller ==
  ASSUME Types, NEW c \in Callers, CallerStep(c)
  PROVE  Types'
<1> USE DEF Types, callerVars, lockVars, storeVars, endpointVars, faultVars
<1>0. Of(c) \in Sessions
  BY SessionAssumption DEF Of
<1>1. CASE AcquireOwn(c)
  BY <1>0, <1>1 DEF AcquireOwn, Go, Place, CallersOK, TokensOK, OthersOK
<1>2. CASE AcquireFile(c)
  <2>1. CallersOK'
    BY <1>2 DEF CallersOK, AcquireFile, Go, Place, Inside, TokensOK, OthersOK
  <2>2. client' \in [Sessions -> {"absent", "bare", "bearer"}]
    BY <1>2 DEF AcquireFile, CallersOK, TokensOK, OthersOK
  <2>3. QED
    BY <1>2, <2>1, <2>2 DEF AcquireFile, TokensOK, OthersOK
<1>3. CASE Loaded(c)
  <2>1. CallersOK'
    BY <1>3, GoType, FallbackType DEF Loaded, Place, Inside
  <2>2. token' \in [Callers -> 0..issued]
    BY <1>3 DEF Loaded, CallersOK, TokensOK, OthersOK
  <2>3. QED
    BY <1>3, <2>1, <2>2 DEF Loaded, TokensOK, OthersOK
<1>4. CASE Refreshed(c)
  <2>1. PICK t \in {token[c], issued + 1} : Honoured(c, t) /\ Apply(c, t)
    BY <1>4 DEF Refreshed
  <2>2. TokensOK' /\ CallersOK' /\ client' \in [Sessions -> {"absent", "bare", "bearer"}]
    BY <1>4, <2>1, HonouredType, ApplyType DEF Refreshed
  <2>3. QED
    BY <1>4, <2>2 DEF Refreshed, OthersOK
<1>5. CASE NotRefreshed(c)
  <2>1. CallersOK'
    BY <1>5, FallbackType DEF NotRefreshed
  <2>2. issued' \in Nat /\ issued <= issued' /\ valid' \subseteq 1..issued'
    <3>1. CASE UNCHANGED endpointVars
      BY <3>1 DEF CallersOK, TokensOK, OthersOK
    <3>2. CASE token[c] \in valid /\ Honoured(c, issued + 1)
      BY <3>2, HonouredType
    <3>3. QED
      BY <1>5, <3>1, <3>2 DEF NotRefreshed
  <2>3. TokensOK'
    BY <1>5, <2>2, TokensKept DEF NotRefreshed
  <2>4. QED
    BY <1>5, <2>1, <2>3 DEF NotRefreshed, OthersOK
<1>6. CASE LoggedIn(c)
  <2>1. CASE /\ issued' = issued + 1 /\ valid' = valid \cup {issued'}
             /\ Apply(c, issued') /\ UNCHANGED <<result, lockVars>>
    <3>1. issued' \in Nat /\ issued <= issued' /\ valid' \subseteq 1..issued'
      BY <2>1 DEF CallersOK, TokensOK, OthersOK
    <3>2. TokensOK' /\ CallersOK' /\ client' \in [Sessions -> {"absent", "bare", "bearer"}]
      BY <1>6, <2>1, <3>1, ApplyType DEF LoggedIn
    <3>3. QED
      BY <1>6, <3>2 DEF LoggedIn, OthersOK
  <2>2. CASE /\ client' = [client EXCEPT ![Of(c)] = "bearer"]
             /\ token' = [token EXCEPT ![c] = NoToken]
             /\ Leave(c, "done") /\ UNCHANGED <<writes, endpointVars>>
    <3>1. CallersOK'
      BY <2>2, LeaveType DEF Result
    <3>2. TokensOK' /\ client' \in [Sessions -> {"absent", "bare", "bearer"}]
      <4>1. token' \in [Callers -> 0..issued]
        BY <2>2 DEF TokensOK, NoToken
      <4>2. client' \in [Sessions -> {"absent", "bare", "bearer"}]
        BY <2>2 DEF OthersOK
      <4>3. QED
        BY <1>6, <2>2, <4>1, <4>2 DEF LoggedIn, TokensOK
    <3>3. QED
      BY <1>6, <3>1, <3>2 DEF LoggedIn, OthersOK
  <2>3. QED
    BY <1>6, <2>1, <2>2 DEF LoggedIn
<1>7. CASE DeleteRead(c)
  <2>1. Write(c, NoToken) \in [by : Callers, value : 0..issued, awaited : BOOLEAN]
    BY DEF Write, NoToken, CallersOK, TokensOK, OthersOK
  <2>2. CallersOK' /\ client' \in [Sessions -> {"absent", "bare", "bearer"}]
    BY <1>7, GoType, LeaveType DEF DeleteRead, Forget, Place, Inside, Result, CallersOK, TokensOK, OthersOK
  <2>3. QED
    BY <1>7, <2>1, <2>2 DEF DeleteRead, TokensOK, OthersOK
<1>8. CASE Saved(c) \/ Raises(c)
  BY <1>8, LeaveType DEF Saved, Raises, Result, TokensOK, OthersOK
<1>9. CASE Deleted(c)
  <2>1. CallersOK' /\ client' \in [Sessions -> {"absent", "bare", "bearer"}]
    BY <1>9, LeaveType DEF Deleted, Forget, Result, CallersOK, TokensOK, OthersOK
  <2>2. QED
    BY <1>9, <2>1 DEF Deleted, TokensOK, OthersOK
<1>10. QED
  BY <1>1, <1>2, <1>3, <1>4, <1>5, <1>6, <1>7, <1>8, <1>9 DEF CallerStep

(* What happens to the callers from outside. *)
FaultStep ==
  \/ \E c \in Callers : Cancel(c)
  \/ \E s \in Sessions : Crash(s)
  \/ ThreadStep

LEMMA TypeFault ==
  ASSUME Types, FaultStep
  PROVE  Types'
<1> USE DEF Types, callerVars, lockVars, storeVars, endpointVars, faultVars
<1>1. ASSUME NEW c \in Callers, Cancel(c) PROVE Types'
  <2>1. CallersOK'
    BY <1>1, LeaveType DEF Cancel, Result
  <2>2. \A w \in writes : Orphan(w) \in [by : Callers, value : 0..issued, awaited : BOOLEAN]
    BY DEF Orphan, CallersOK, TokensOK, OthersOK
  <2>3. writes' \subseteq [by : Callers, value : 0..issued, awaited : BOOLEAN]
    BY <1>1, <2>2 DEF Cancel, Awaited, CallersOK, TokensOK, OthersOK
  <2>4. issued' \in Nat /\ issued <= issued' /\ valid' \subseteq 1..issued'
    <3>1. CASE UNCHANGED endpointVars
      BY <3>1 DEF CallersOK, TokensOK, OthersOK
    <3>2. CASE token[c] \in valid /\ Honoured(c, issued + 1)
      BY <3>2, HonouredType
    <3>3. QED
      BY <1>1, <3>1, <3>2 DEF Cancel
  <2>5. 0..issued \subseteq 0..issued'
    BY <2>4 DEF CallersOK, TokensOK, OthersOK
  <2>6. TokensOK'
    <3>1. token' \in [Callers -> 0..issued'] /\ store' \in 0..issued'
      BY <1>1, <2>5 DEF Cancel, CallersOK, TokensOK, OthersOK
    <3>2. writes' \subseteq [by : Callers, value : 0..issued', awaited : BOOLEAN]
      BY <2>3, <2>5
    <3>3. QED
      BY <2>4, <3>1, <3>2 DEF TokensOK
  <2>7. cancels' \in 0..MaxCancels
    BY <1>1, BoundAssumption DEF Cancel, CallersOK, TokensOK, OthersOK
  <2>8. Of(c) \in Sessions
    BY SessionAssumption DEF Of
  <2>9. tries' \in [Sessions -> Nat]
    BY <1>1, <2>8 DEF Cancel, OthersOK
  <2>10. QED
    BY <1>1, <2>1, <2>6, <2>7, <2>9 DEF Cancel, OthersOK
<1>2. ASSUME NEW s \in Sessions, Crash(s) PROVE Types'
  <2>1. crashes' \in 0..MaxCrashes
    BY <1>2, BoundAssumption DEF Crash, CallersOK, TokensOK, OthersOK
  <2>2. CallersOK'
    BY <1>2 DEF Crash, CallersOK, Place, Result, InSession, TokensOK, OthersOK
  <2>3. TokensOK' /\ client' \in [Sessions -> {"absent", "bare", "bearer"}]
    BY <1>2 DEF Crash, TokensOK, CallersOK, OthersOK
  <2>4. QED
    BY <1>2, <2>1, <2>2, <2>3 DEF Crash, OthersOK
<1>3. ASSUME NEW w \in writes, Written(w) PROVE Types'
  <2>1. w.value \in 0..issued
    BY DEF CallersOK, TokensOK, OthersOK
  <2>2. QED
    BY <1>3, <2>1 DEF Written, CallersOK, TokensOK, OthersOK
<1>4. ASSUME NEW w \in writes, NotWritten(w) PROVE Types'
  <2>1. w.by \in Callers
    BY DEF CallersOK, TokensOK, OthersOK
  <2>2. CallersOK'
    <3>1. CASE w.awaited
      BY <1>4, <2>1, <3>1, LeaveType DEF NotWritten, Result
    <3>2. CASE ~w.awaited
      BY <1>4, <3>2 DEF NotWritten, CallersOK
    <3>3. QED
      BY <3>1, <3>2
  <2>3. QED
    BY <1>4, <2>2 DEF NotWritten, TokensOK, OthersOK
<1>5. ASSUME NEW s \in Sessions, Tried(s) PROVE Types'
  <2>1. tries' \in [Sessions -> Nat] /\ stray' \subseteq Sessions
    BY <1>5 DEF Tried, OthersOK
  <2>2. QED
    BY <1>5, <2>1 DEF Tried, CallersOK, TokensOK, OthersOK
<1>6. QED
  BY <1>1, <1>2, <1>3, <1>4, <1>5 DEF FaultStep, ThreadStep

LEMMA TypesCorrect == Spec => []Types
<1>1. Init => Types
  <2> SUFFICES ASSUME Init PROVE Types
    OBVIOUS
  <2>1. CallersOK
    BY DEF Init, CallersOK, Place, Result
  <2>2. TokensOK
    BY DEF Init, TokensOK, NoToken
  <2>3. OthersOK
    BY BoundAssumption DEF Init, OthersOK, Calls
  <2>4. QED
    BY <2>1, <2>2, <2>3 DEF Types
<1>2. Types /\ [Next]_vars => Types'
  <2> SUFFICES ASSUME Types, [Next]_vars PROVE Types'
    OBVIOUS
  <2> USE DEF callerVars, lockVars, storeVars, endpointVars, faultVars
  <2>1. ASSUME NEW c \in Callers, NEW what \in Calls, Call(c, what) PROVE Types'
    <3>1. calls' \in [Callers -> 0..MaxCalls] /\ call' \in [Callers -> Calls]
      BY <2>1, BoundAssumption DEF Call, Types, OthersOK
    <3>2. CallersOK'
      BY <2>1 DEF Call, Types, CallersOK, Go, Place, Result
    <3>3. TokensOK'
      BY <2>1 DEF Call, Types, TokensOK, NoToken
    <3>4. QED
      BY <2>1, <3>1, <3>2, <3>3 DEF Call, Types, OthersOK
  <2>2. CASE Finished \/ UNCHANGED vars
    BY <2>2 DEF Finished, vars, Types, CallersOK, TokensOK, OthersOK
  <2>3. QED
    BY <2>1, <2>2, TypeCaller, TypeFault DEF Next, FaultStep
<1>3. QED
  BY <1>1, <1>2, PTL DEF Spec

(* Every variable keeps its type. *)
THEOREM TypeCorrect == Spec => []TypeOK
<1>1. Types => TypeOK
  BY DEF Types, CallersOK, TokensOK, OthersOK, TypeOK
<1>2. QED
  BY <1>1, TypesCorrect, PTL

-----------------------------------------------------------------------------
(* The locks.                                                              *)

(* Whoever waits for the lock file or works has the lock of its session;   *)
(* those who work are those who hold the lock file; and all of them use    *)
(* one session.                                                            *)
Locked ==
  /\ \A c \in Callers : place[c] \in Inside \cup {"file"} => owner[Of(c)] = c
  /\ holders = Working
  /\ \A c, d \in holders : Of(c) = Of(d)

LEMMA Alone ==
  ASSUME Locked, NEW c \in Working, NEW d \in Working
  PROVE  c = d
<1>1. Of(c) = Of(d)
  BY DEF Locked
<1>2. owner[Of(c)] = c /\ owner[Of(d)] = d
  BY DEF Locked, Working
<1>3. QED
  BY <1>1, <1>2

LEMMA OfType == \A c \in Callers : Of(c) \in Sessions
  BY SessionAssumption DEF Of

LEMMA LockedGo ==
  ASSUME Types, Locked, NEW c \in Callers, NEW p \in Inside, Go(c, p),
         place[c] \in Inside, UNCHANGED lockVars
  PROVE  Locked'
<1>1. \A d \in Callers : place'[d] \in Inside <=> place[d] \in Inside
  BY DEF Go, Types, CallersOK
<1>2. \A d \in Callers : place'[d] = "file" => place[d] = "file"
  BY DEF Go, Types, CallersOK, Inside
<1>3. Working' = Working
  BY <1>1 DEF Working
<1>4. QED
  BY <1>1, <1>2, <1>3 DEF Locked, lockVars

LEMMA LockedLeave ==
  ASSUME Types, Locked, NEW c \in Callers, NEW r, Leave(c, r)
  PROVE  Locked'
<1>1. /\ place'[c] = "idle"
      /\ \A d \in Callers \ {c} : place'[d] = place[d]
      /\ \A d \in Callers \ {c} : owner[Of(d)] = d => owner'[Of(d)] = d
      /\ holders' = holders \ {c}
  BY OfType DEF Leave, Go, Types, CallersOK
<1>2. Working' = Working \ {c}
  BY <1>1 DEF Working, Inside
<1>3. QED
  BY <1>1, <1>2 DEF Locked, Inside

LEMMA LockedFallback ==
  ASSUME Types, Locked, NEW c \in Callers, Fallback(c), place[c] \in Inside
  PROVE  Locked'
<1>1. CASE call[c] = "authenticate_interactively"
  BY <1>1, LockedGo DEF Fallback, Inside
<1>2. CASE call[c] # "authenticate_interactively"
  BY <1>2, LockedLeave DEF Fallback
<1>3. QED
  BY <1>1, <1>2

LEMMA LockedCaller ==
  ASSUME Types, Locked, NEW c \in Callers, CallerStep(c)
  PROVE  Locked'
<1>1. CASE AcquireOwn(c)
  <2>1. /\ place[c] = "own" /\ place'[c] = "file" /\ owner[Of(c)] = Nobody
        /\ \A d \in Callers \ {c} : place'[d] = place[d]
        /\ owner' = [owner EXCEPT ![Of(c)] = c] /\ owner'[Of(c)] = c /\ holders' = holders
    BY <1>1, OfType DEF AcquireOwn, Go, Types, CallersOK
  <2>2. ASSUME NEW d \in Callers \ {c}, place[d] \in Inside \cup {"file"}
        PROVE  owner'[Of(d)] = d
    <3>1. owner[Of(d)] = d /\ d # Nobody
      BY <2>2, NobodyAssumption DEF Locked
    <3>2. QED
      BY <2>1, <3>1, OfType DEF Types, CallersOK
  <2>3. Working' = Working
    BY <2>1 DEF Working, Inside
  <2>4. QED
    BY <2>1, <2>2, <2>3 DEF Locked
<1>2. CASE AcquireFile(c)
  <2>1. /\ place[c] = "file" /\ place'[c] \in Inside
        /\ \A d \in Callers \ {c} : place'[d] = place[d]
        /\ owner' = owner /\ holders' = holders \cup {c}
        /\ \A d \in holders : Of(d) = Of(c)
    BY <1>2 DEF AcquireFile, Go, Types, CallersOK, Inside
  <2>2. Working' = Working \cup {c}
    BY <2>1 DEF Working
  <2>3. QED
    BY <2>1, <2>2 DEF Locked
<1>3. CASE Loaded(c)
  BY <1>3, LockedGo, LockedFallback DEF Loaded, Inside, lockVars
<1>4. CASE NotRefreshed(c)
  BY <1>4, LockedFallback DEF NotRefreshed, Inside
<1>5. CASE Refreshed(c)
  BY <1>5, LockedGo DEF Refreshed, Apply, Inside
<1>6. CASE LoggedIn(c)
  <2>1. place[c] = "login"
    BY <1>6 DEF LoggedIn
  <2>2. \/ Go(c, "saving") /\ UNCHANGED lockVars
        \/ Leave(c, "done")
    BY <1>6 DEF LoggedIn, Apply
  <2>3. QED
    BY <2>1, <2>2, LockedGo, LockedLeave DEF Inside
<1>7. CASE DeleteRead(c)
  <2>1. place[c] = "reading"
    BY <1>7 DEF DeleteRead
  <2>2. \/ Go(c, "deleting") /\ UNCHANGED lockVars
        \/ Leave(c, "done")
    BY <1>7 DEF DeleteRead
  <2>3. QED
    BY <2>1, <2>2, LockedGo, LockedLeave DEF Inside
<1>8. CASE Saved(c) \/ Deleted(c) \/ Raises(c)
  BY <1>8, LockedLeave DEF Saved, Deleted, Raises
<1>9. QED
  BY <1>1, <1>2, <1>3, <1>4, <1>5, <1>6, <1>7, <1>8 DEF CallerStep

LEMMA LockedFault ==
  ASSUME Types, Locked, FaultStep
  PROVE  Locked'
<1>1. ASSUME NEW c \in Callers, Cancel(c) PROVE Locked'
  BY <1>1, LockedLeave DEF Cancel
<1>2. ASSUME NEW s \in Sessions, Crash(s) PROVE Locked'
  <2>1. /\ \A c \in Callers : place'[c] = IF Of(c) = s THEN "idle" ELSE place[c]
        /\ \A c \in Callers : Of(c) # s => owner'[Of(c)] = owner[Of(c)]
        /\ holders' = holders \ InSession(s)
    BY <1>2, OfType DEF Crash, Types, CallersOK
  <2>2. Working' = Working \ InSession(s)
    BY <2>1 DEF Working, InSession, Inside
  <2>3. QED
    BY <2>1, <2>2 DEF Locked, Inside
<1>3. ASSUME NEW w \in writes, Written(w) \/ NotWritten(w) PROVE Locked'
  <2>1. CASE UNCHANGED <<place, lockVars>>
    BY <2>1 DEF Locked, Working, lockVars
  <2>2. CASE Leave(w.by, "error")
    BY <2>2, LockedLeave DEF Types, TokensOK
  <2>3. QED
    BY <1>3, <2>1, <2>2 DEF Written, NotWritten, callerVars
<1>4. ASSUME NEW s \in Sessions, Tried(s) PROVE Locked'
  BY <1>4 DEF Tried, Locked, Working, callerVars, lockVars
<1>5. QED
  BY <1>1, <1>2, <1>3, <1>4 DEF FaultStep, ThreadStep

LEMMA LockedCorrect == Spec => []Locked
<1>1. Init => Locked
  BY DEF Init, Locked, Working, Inside
<1>2. Types /\ Locked /\ [Next]_vars => Locked'
  <2> SUFFICES ASSUME Types, Locked, [Next]_vars PROVE Locked'
    OBVIOUS
  <2>1. ASSUME NEW c \in Callers, NEW what \in Calls, Call(c, what) PROVE Locked'
    <3>1. /\ place[c] = "idle" /\ place'[c] = "own" /\ UNCHANGED lockVars
          /\ \A d \in Callers \ {c} : place'[d] = place[d]
      BY <2>1 DEF Call, Go, Types, CallersOK
    <3>2. Working' = Working
      BY <3>1 DEF Working, Inside
    <3>3. QED
      BY <3>1, <3>2 DEF Locked, Inside, lockVars
  <2>2. CASE Finished \/ UNCHANGED vars
    BY <2>2 DEF Finished, vars, callerVars, lockVars, Locked, Working
  <2>3. QED
    BY <2>1, <2>2, LockedCaller, LockedFault DEF Next, FaultStep
<1>3. QED
  BY <1>1, <1>2, TypesCorrect, PTL DEF Spec

(* OneAtATime: one caller at a time works on the tokens, it is the one     *)
(* holding the lock file, and nothing else holds it.                       *)
THEOREM OneCallerAtATime == Spec => []OneAtATime
<1>1. ASSUME Locked PROVE OneAtATime
  <2>1. CASE Working = {}
    BY <1>1, <2>1, FS_EmptySet DEF Locked, OneAtATime
  <2>2. ASSUME NEW c \in Working PROVE OneAtATime
    <3>1. Working = {c}
      BY <1>1, Alone
    <3>2. Cardinality(Working) = 1
      BY <3>1, FS_Singleton
    <3>3. QED
      BY <1>1, <3>2 DEF Locked, OneAtATime
  <2>3. QED
    BY <2>1, <2>2
<1>2. QED
  BY <1>1, LockedCorrect, PTL

-----------------------------------------------------------------------------
(* The writes to the store.                                                *)

(* What a caller at some place has called.                                 *)
Calling ==
  \A c \in Callers :
    /\ place[c] \in {"loading", "refreshing", "login", "saving"} => call[c] # "logout"
    /\ place[c] \in {"reading", "deleting"} => call[c] = "logout"

(* A caller awaits at most one write, of its token or of none, and only    *)
(* cancellations leave writes behind.                                      *)
Writing ==
  /\ \A w \in writes : w.awaited =>
       \/ place[w.by] = "saving" /\ w.value = token[w.by]
       \/ place[w.by] = "deleting" /\ w.value = NoToken
  /\ cancels = 0 => \A w \in writes : w.awaited

(* While nobody was cancelled: a caller that saves has a token that the    *)
(* endpoint accepts, and once its write is over the store holds it.        *)
Saving ==
  cancels = 0 =>
    \A c \in Callers : place[c] = "saving" =>
      /\ token[c] \in valid
      /\ Awaited(c) = {} => store = token[c]

Guarded == Calling /\ Writing /\ Saving

(* What a step of one caller does to the others and to the writes.         *)
LEMMA CallerFrame ==
  ASSUME Types, NEW c \in Callers, CallerStep(c)
  PROVE  /\ \A d \in Callers \ {c} : place'[d] = place[d] /\ token'[d] = token[d]
         /\ UNCHANGED <<call, cancels, store>>
         /\ c \in Working \/ UNCHANGED valid
  BY DEF CallerStep, AcquireOwn, AcquireFile, Loaded, Refreshed, NotRefreshed,
     LoggedIn, Saved, DeleteRead, Deleted, Raises, Fallback, Apply, Leave, Go,
     Types, CallersOK, TokensOK, Working, Inside, callerVars, storeVars,
     endpointVars, faultVars

LEMMA CallerWrites ==
  ASSUME Types, NEW c \in Callers, CallerStep(c)
  PROVE  \/ writes' = writes /\ place'[c] \notin {"saving", "deleting"}
         \/ /\ place'[c] = "saving" /\ token'[c] \in valid'
            /\ writes' = writes \cup {Write(c, token'[c])}
         \/ place'[c] = "deleting" /\ writes' = writes \cup {Write(c, NoToken)}
<1> USE DEF Types, CallersOK, TokensOK, Leave, Go, storeVars
<1>1. CASE AcquireOwn(c) \/ AcquireFile(c) \/ Saved(c) \/ Deleted(c) \/ Raises(c)
  BY <1>1 DEF AcquireOwn, AcquireFile, Saved, Deleted, Raises
<1>2. CASE Loaded(c) \/ NotRefreshed(c)
  BY <1>2 DEF Loaded, NotRefreshed, Fallback
<1>3. ASSUME NEW t, Apply(c, t), t \in valid'
      PROVE  /\ place'[c] = "saving" /\ token'[c] \in valid'
             /\ writes' = writes \cup {Write(c, token'[c])}
  BY <1>3 DEF Apply
<1>4. CASE Refreshed(c)
  <2>1. PICK t \in {token[c], issued + 1} : Honoured(c, t) /\ Apply(c, t)
    BY <1>4 DEF Refreshed
  <2>2. t \in valid'
    BY <1>4, <2>1, HonouredType DEF Refreshed
  <2>3. QED
    BY <1>3, <2>1, <2>2
<1>5. CASE LoggedIn(c)
  <2>1. CASE valid' = valid \cup {issued'} /\ Apply(c, issued')
    BY <1>3, <2>1
  <2>2. CASE Leave(c, "done") /\ UNCHANGED <<writes, endpointVars>>
    BY <2>2
  <2>3. QED
    BY <1>5, <2>1, <2>2 DEF LoggedIn
<1>6. CASE DeleteRead(c)
  BY <1>6 DEF DeleteRead
<1>7. QED
  BY <1>1, <1>2, <1>4, <1>5, <1>6 DEF CallerStep

(* A caller that goes on has no write to wait for any more.                *)
LEMMA NoneAwaited ==
  ASSUME Types, Writing, NEW c \in Callers, CallerStep(c)
  PROVE  \A w \in writes : w.awaited => w.by # c
  BY DEF Writing, Awaited, CallerStep, AcquireOwn, AcquireFile, Loaded, Refreshed,
     NotRefreshed, LoggedIn, Saved, DeleteRead, Deleted, Raises

LEMMA CallingStep ==
  ASSUME Types, Calling, NEW c \in Callers, CallerStep(c)
  PROVE  Calling'
<1>1. /\ \A d \in Callers \ {c} : place'[d] = place[d]
      /\ call' = call
  BY CallerFrame
<1>2. /\ place'[c] \in {"loading", "refreshing", "login", "saving"} => call[c] # "logout"
      /\ place'[c] \in {"reading", "deleting"} => call[c] = "logout"
  BY DEF Calling, CallerStep, AcquireOwn, AcquireFile, Loaded, Refreshed,
     NotRefreshed, LoggedIn, Saved, DeleteRead, Deleted, Raises, Fallback, Apply,
     Leave, Go, Types, CallersOK
<1>3. QED
  BY <1>1, <1>2 DEF Calling

LEMMA GuardedCaller ==
  ASSUME Types, Locked, Guarded, NEW c \in Callers, CallerStep(c)
  PROVE  Guarded'
<1> USE DEF Guarded
<1>1. /\ \A d \in Callers \ {c} : place'[d] = place[d] /\ token'[d] = token[d]
      /\ UNCHANGED <<cancels, store>>
      /\ c \in Working \/ UNCHANGED valid
  BY CallerFrame
<1>2. /\ \A w \in writes : w.by \in Callers
      /\ \A w \in writes : w.awaited => w.by # c
  BY NoneAwaited DEF Types, TokensOK
<1>3. \A t : Write(c, t).by = c /\ Write(c, t).awaited /\ Write(c, t).value = t
  BY DEF Write
<1>4. Writing'
  BY <1>1, <1>2, <1>3, CallerWrites DEF Writing
<1>5. ASSUME cancels = 0, NEW d \in Callers, place'[d] = "saving", d # c
      PROVE  token'[d] \in valid' /\ (Awaited(d)' = {} => store' = token'[d])
  <2>1. d \in Working /\ place[d] = "saving"
    BY <1>1, <1>5 DEF Working, Inside
  <2>2. c \notin Working
    BY <1>5, <2>1, Alone
  <2>3. Awaited(d) \subseteq Awaited(d)'
    BY CallerWrites DEF Awaited
  <2>4. QED
    BY <1>1, <1>5, <2>1, <2>2, <2>3 DEF Saving
<1>6. ASSUME place'[c] = "saving"
      PROVE  token'[c] \in valid' /\ Awaited(c)' # {}
  <2>1. token'[c] \in valid' /\ writes' = writes \cup {Write(c, token'[c])}
    BY <1>6, CallerWrites
  <2>2. Write(c, token'[c]) \in Awaited(c)'
    BY <1>3, <2>1 DEF Awaited
  <2>3. QED
    BY <2>1, <2>2
<1>7. Saving'
  BY <1>1, <1>5, <1>6 DEF Saving
<1>8. QED
  BY <1>4, <1>7, CallingStep

LEMMA GuardedCancel ==
  ASSUME Types, Guarded, NEW c \in Callers, Cancel(c)
  PROVE  Guarded'
<1> USE DEF Guarded
<1>1. /\ place'[c] = "idle"
      /\ \A d \in Callers \ {c} : place'[d] = place[d]
      /\ UNCHANGED <<call, token>>
      /\ cancels' # 0
  BY DEF Cancel, Leave, Go, Types, CallersOK, OthersOK
<1>2. \A w \in writes' : w.awaited => w \in writes /\ w.by # c
  <2>1. \A w \in writes : ~Orphan(w).awaited
    BY DEF Orphan, Types, TokensOK
  <2>2. PICK going \in BOOLEAN :
          writes' = (writes \ Awaited(c)) \cup
                      (IF going THEN {Orphan(w) : w \in Awaited(c)} ELSE {})
    BY DEF Cancel
  <2>3. QED
    BY <2>1, <2>2 DEF Awaited
<1>3. \A w \in writes : w.by \in Callers
  BY DEF Types, TokensOK
<1>4. Writing'
  BY <1>1, <1>2, <1>3 DEF Writing
<1>5. QED
  BY <1>1, <1>4 DEF Calling, Saving

LEMMA GuardedCrash ==
  ASSUME Types, Guarded, NEW s \in Sessions, Crash(s)
  PROVE  Guarded'
<1> USE DEF Guarded
<1>1. /\ \A c \in Callers : place'[c] = IF Of(c) = s THEN "idle" ELSE place[c]
      /\ writes' = {w \in writes : Of(w.by) # s}
      /\ UNCHANGED <<call, token, store, endpointVars, cancels>>
  BY DEF Crash
<1>2. \A w \in writes : w.by \in Callers
  BY DEF Types, TokensOK
<1>3. Writing' /\ Calling'
  BY <1>1, <1>2 DEF Writing, Calling
<1>4. ASSUME NEW c \in Callers, place'[c] = "saving"
      PROVE  Awaited(c)' = Awaited(c) /\ place[c] = "saving"
  BY <1>1, <1>4 DEF Awaited
<1>5. Saving'
  BY <1>1, <1>4 DEF Saving, endpointVars
<1>6. QED
  BY <1>3, <1>5

LEMMA GuardedThread ==
  ASSUME Types, Locked, Guarded, NEW w \in writes, Written(w) \/ NotWritten(w)
  PROVE  Guarded'
<1> USE DEF Guarded
<1>1. w.by \in Callers /\ \A v \in writes : v.by \in Callers
  BY DEF Types, TokensOK
<1>2. UNCHANGED <<call, token, valid, cancels>> /\ writes' = writes \ {w}
  BY DEF Written, NotWritten, callerVars, endpointVars, faultVars
<1>3. \A v \in writes : v.awaited /\ v # w /\ w.awaited => v.by # w.by
  <2>1. ASSUME NEW v \in writes, v.awaited, w.awaited, v.by = w.by PROVE v = w
    <3>1. v.value = w.value
      BY <2>1 DEF Writing
    <3>2. QED
      BY <2>1, <3>1 DEF Types, TokensOK
  <2>2. QED
    BY <2>1
<1>4. \/ UNCHANGED place
      \/ /\ w.awaited /\ place'[w.by] = "idle" /\ store' = store
         /\ \A d \in Callers \ {w.by} : place'[d] = place[d]
  BY <1>1 DEF Written, NotWritten, Leave, Go, Types, CallersOK, callerVars
<1>5. Calling'
  BY <1>2, <1>4 DEF Calling
<1>6. Writing'
  BY <1>1, <1>2, <1>3, <1>4 DEF Writing
<1>7. ASSUME cancels = 0, NEW c \in Callers, place'[c] = "saving"
      PROVE  token[c] \in valid /\ (Awaited(c)' = {} => store' = token[c])
  <2>1. place[c] = "saving" /\ c \in Working
    BY <1>4, <1>7 DEF Working, Inside
  <2>2. w.awaited /\ w.by \in Working
    BY <1>1, <1>2, <1>7 DEF Writing, Working, Inside
  <2>3. w.by = c /\ w.value = token[c]
    BY <2>1, <2>2, Alone DEF Writing
  <2>4. Written(w)
    BY <1>7, <2>2, <2>3 DEF NotWritten, Leave, Go, Types, CallersOK
  <2>5. store' = token[c]
    BY <2>3, <2>4 DEF Written
  <2>6. QED
    BY <1>7, <2>1, <2>5 DEF Saving
<1>8. Saving'
  BY <1>2, <1>7 DEF Saving
<1>9. QED
  BY <1>5, <1>6, <1>8

LEMMA GuardedCorrect == Spec => []Guarded
<1>1. Init => Guarded
  BY DEF Init, Guarded, Calling, Writing, Saving
<1>2. Types /\ Locked /\ Guarded /\ [Next]_vars => Guarded'
  <2> SUFFICES ASSUME Types, Locked, Guarded, [Next]_vars PROVE Guarded'
    OBVIOUS
  <2>1. ASSUME NEW c \in Callers, NEW what \in Calls, Call(c, what) PROVE Guarded'
    <3>1. /\ place[c] = "idle" /\ place'[c] = "own"
          /\ \A d \in Callers \ {c} :
               place'[d] = place[d] /\ token'[d] = token[d] /\ call'[d] = call[d]
          /\ UNCHANGED <<store, writes, valid, cancels>>
      BY <2>1 DEF Call, Go, Types, CallersOK, TokensOK, OthersOK, storeVars,
         endpointVars, faultVars
    <3>2. \A w \in writes : w.by \in Callers
      BY DEF Types, TokensOK
    <3>3. Calling' /\ Writing'
      BY <3>1, <3>2 DEF Guarded, Calling, Writing
    <3>4. Saving'
      BY <3>1 DEF Guarded, Saving, Awaited
    <3>5. QED
      BY <3>3, <3>4 DEF Guarded
  <2>2. CASE Finished \/ UNCHANGED vars
    <3>1. UNCHANGED <<place, call, token, store, writes, valid, cancels>>
      BY <2>2 DEF Finished, vars, callerVars, storeVars, endpointVars, faultVars
    <3>2. QED
      BY <3>1 DEF Guarded, Calling, Writing, Saving, Awaited
  <2>3. ASSUME NEW s \in Sessions, Tried(s) PROVE Guarded'
    BY <2>3 DEF Tried, callerVars, storeVars, endpointVars, Guarded, Calling, Writing,
       Saving, Awaited
  <2>4. QED
    BY <2>1, <2>2, <2>3, GuardedCaller, GuardedCancel, GuardedCrash, GuardedThread
       DEF Next, ThreadStep
<1>3. QED
  BY <1>1, <1>2, TypesCorrect, LockedCorrect, PTL DEF Spec

-----------------------------------------------------------------------------
(* WritesAreGuarded: while nobody is cancelled, every write to the store   *)
(* is awaited by the one caller at work.                                   *)
THEOREM WritesAreAwaited == Spec => []WritesAreGuarded
<1>1. Types /\ Guarded => WritesAreGuarded
  BY DEF Types, TokensOK, Guarded, Writing, WritesAreGuarded, Working, Inside
<1>2. QED
  BY <1>1, TypesCorrect, GuardedCorrect, PTL

(* LogoutSticks: while nobody is cancelled, an empty store is filled only  *)
(* on behalf of a caller that authenticates.                               *)
THEOREM LoggedOutStaysLoggedOut == Spec => LogoutSticks
<1>1. ASSUME Types, Guarded, [Next]_vars, cancels = 0, store = NoToken, store' # NoToken
      PROVE  \E c \in Working : call[c] # "logout"
  <2>1. PICK w \in writes : Written(w)
    BY <1>1, CallerFrame DEF Next, Call, Cancel, Crash, ThreadStep, NotWritten, Tried,
       Finished, vars, storeVars
  <2>2. w.by \in Callers /\ w.awaited /\ w.value # NoToken
    BY <1>1, <2>1 DEF Types, TokensOK, Guarded, Writing, Written
  <2>3. place[w.by] = "saving"
    BY <1>1, <2>2 DEF Guarded, Writing
  <2>4. QED
    BY <1>1, <2>2, <2>3 DEF Guarded, Calling, Working, Inside
<1>2. Types /\ Guarded /\ [Next]_vars =>
        [cancels = 0 /\ store = NoToken /\ store' # NoToken =>
           \E c \in Working : call[c] # "logout"]_vars
  BY <1>1
<1>3. QED
  BY <1>2, TypesCorrect, GuardedCorrect, PTL DEF Spec, LogoutSticks

(* Only the caller's own last step ends its call with success.             *)
LEMMA DoneBy ==
  ASSUME Types, [Next]_vars, NEW c \in Callers, result[c] # "done", result'[c] = "done"
  PROVE  \/ Saved(c)
         \/ LoggedIn(c) /\ token'[c] = NoToken
         \/ DeleteRead(c) \/ Deleted(c)
<1> USE DEF Leave, Go, Types, CallersOK, TokensOK
<1>1. ASSUME NEW d \in Callers, CallerStep(d), result' # result
      PROVE  /\ \A e \in Callers \ {d} : result'[e] = result[e]
             /\ \/ Saved(d)
                \/ LoggedIn(d) /\ token'[d] = NoToken
                \/ DeleteRead(d) \/ Deleted(d) \/ result'[d] = "error"
  <2>1. \E r \in Result : Leave(d, r)
    BY <1>1 DEF CallerStep, AcquireOwn, AcquireFile, Loaded, Refreshed, NotRefreshed,
       LoggedIn, Saved, DeleteRead, Deleted, Raises, Fallback, Apply, Result, callerVars
  <2>2. CASE Loaded(d) \/ NotRefreshed(d) \/ Raises(d)
    BY <1>1, <2>2 DEF Loaded, NotRefreshed, Raises, Fallback
  <2>3. CASE LoggedIn(d)
    BY <1>1, <2>1, <2>3 DEF LoggedIn, Apply
  <2>4. CASE AcquireOwn(d) \/ AcquireFile(d) \/ Refreshed(d)
    BY <1>1, <2>4 DEF AcquireOwn, AcquireFile, Refreshed
  <2>5. \A e \in Callers \ {d} : result'[e] = result[e]
    BY <2>1
  <2>6. \/ Saved(d)
        \/ LoggedIn(d) /\ token'[d] = NoToken
        \/ DeleteRead(d) \/ Deleted(d) \/ result'[d] = "error"
    BY <1>1, <2>2, <2>3, <2>4 DEF CallerStep
  <2>7. QED
    BY <2>5, <2>6
<1>2. ASSUME NEW d \in Callers, Cancel(d) \/ \E what \in Calls : Call(d, what)
      PROVE  /\ \A e \in Callers \ {d} : result'[e] = result[e]
             /\ result'[d] # "done"
  BY <1>2 DEF Cancel, Call
<1>3. ASSUME NEW s \in Sessions, Crash(s) PROVE result'[c] # "done"
  BY <1>3 DEF Crash
<1>4. ASSUME NEW w \in writes, Written(w) \/ NotWritten(w) PROVE result'[c] # "done"
  BY <1>4 DEF Written, NotWritten, callerVars
<1>5. CASE Finished \/ UNCHANGED vars
  BY <1>5 DEF Finished, vars, callerVars
<1>6. ASSUME NEW s \in Sessions, Tried(s) PROVE result'[c] # "done"
  BY <1>6 DEF Tried, callerVars
<1>7. QED
  BY <1>1, <1>2, <1>3, <1>4, <1>5, <1>6 DEF Next, ThreadStep

(* AuthenticatedIsUsable: while nobody was cancelled, a call that          *)
(* authenticated leaves its refresh token in the store, and the endpoint   *)
(* accepts it, also if the token it had read was replaced.                 *)
THEOREM AuthenticationIsUsable == Spec => AuthenticatedIsUsable
<1>1. ASSUME Types, Guarded, [Next]_vars, cancels' = 0, NEW c \in Callers,
             call[c] # "logout", token'[c] # NoToken,
             result[c] # "done", result'[c] = "done"
      PROVE  store' = token[c] /\ store' \in valid'
  <2>1. Saved(c)
    BY <1>1, DoneBy DEF Guarded, Calling, DeleteRead, Deleted
  <2>2. /\ place[c] = "saving" /\ Awaited(c) = {}
        /\ UNCHANGED <<store, valid, cancels>>
    BY <2>1 DEF Saved, storeVars, endpointVars, faultVars
  <2>3. token[c] \in valid /\ store = token[c]
    BY <1>1, <2>2 DEF Guarded, Saving
  <2>4. QED
    BY <2>2, <2>3
<1>2. Types /\ Guarded /\ [Next]_vars =>
        [cancels' = 0 =>
           \A c \in Callers :
             call[c] # "logout" /\ token'[c] # NoToken
             /\ result[c] # "done" /\ result'[c] = "done"
             => store' = token[c] /\ store' \in valid']_vars
  BY <1>1
<1>3. QED
  BY <1>2, TypesCorrect, GuardedCorrect, PTL DEF Spec, AuthenticatedIsUsable

-----------------------------------------------------------------------------
(* What CallsEnd rests on: the two locks cause no deadlock.                *)

(* A caller can go on (CallerStep): it finds its lock free, or awaits a    *)
(* request, a login, or a write that is over.                              *)
GoesOn(c) ==
  \/ place[c] = "own" /\ owner[Of(c)] = Nobody
  \/ place[c] = "file" /\ ~Abandoned(c) /\ \A d \in holders : Of(d) = Of(c)
  \/ place[c] \in Inside \ {"saving", "deleting"}
  \/ place[c] \in {"saving", "deleting"} /\ Awaited(c) = {}

(* Whoever has to wait waits for one that can go on, or whose write a      *)
(* thread is busy with: itself, the owner of the lock of its session, or   *)
(* a holder of the lock file; unless another process has the lock file on  *)
(* behalf of a caller that was cancelled.                                  *)
WaitsForLiving ==
  \A c \in Callers : place[c] # "idle" /\ ~Abandoned(c) =>
    \E d \in (Callers \cap {c, owner[Of(c)]}) \cup holders : GoesOn(d) \/ Awaited(d) # {}

(* The lock of a session is with a caller of it that will leave it: none   *)
(* is left behind by a call that ended, was cancelled, or died.            *)
Owned ==
  \A s \in Sessions : owner[s] # Nobody =>
    /\ owner[s] \in Callers /\ Of(owner[s]) = s
    /\ place[owner[s]] \in Inside \cup {"file"}

LEMMA OwnedGo ==
  ASSUME Types, Owned, NEW c \in Callers, NEW p \in Inside, Go(c, p), UNCHANGED owner
  PROVE  Owned'
  BY DEF Owned, Go, Types, CallersOK

LEMMA OwnedLeave ==
  ASSUME Types, Owned, NEW c \in Callers, NEW r, Leave(c, r)
  PROVE  Owned'
<1>1. /\ \A d \in Callers \ {c} : place'[d] = place[d]
      /\ owner' = [owner EXCEPT ![Of(c)] = IF @ = c THEN Nobody ELSE @]
  BY DEF Leave, Go, Types, CallersOK
<1>2. ASSUME NEW s \in Sessions, owner'[s] # Nobody
      PROVE  owner'[s] = owner[s] /\ owner[s] # c
  BY <1>1, <1>2, OfType DEF Owned, Types, CallersOK
<1>3. QED
  BY <1>1, <1>2 DEF Owned

LEMMA OwnedCaller == ASSUME Types, Owned, NEW c \in Callers, CallerStep(c) PROVE Owned'
<1>1. CASE AcquireOwn(c)
  <2>1. /\ place'[c] = "file" /\ owner[Of(c)] = Nobody
        /\ \A d \in Callers \ {c} : place'[d] = place[d]
        /\ owner'[Of(c)] = c
        /\ \A s \in Sessions \ {Of(c)} : owner'[s] = owner[s]
        /\ place[c] = "own"
    BY <1>1, OfType DEF AcquireOwn, Go, Types, CallersOK
  <2>2. ASSUME NEW s \in Sessions \ {Of(c)}, owner[s] # Nobody PROVE owner[s] # c
    BY <2>2 DEF Owned
  <2>3. QED
    BY <2>1, <2>2 DEF Owned
<1>2. CASE AcquireFile(c)
  <2>1. UNCHANGED owner /\ \E p \in Inside : Go(c, p)
    BY <1>2 DEF AcquireFile, Inside
  <2>2. QED
    BY <2>1, OwnedGo
<1>3. CASE \E r : Leave(c, r)
  BY <1>3, OwnedLeave
<1>4. CASE UNCHANGED lockVars /\ \E p \in Inside : Go(c, p)
  BY <1>4, OwnedGo DEF lockVars
<1>5. CASE Loaded(c) \/ NotRefreshed(c)
  BY <1>3, <1>4, <1>5 DEF Loaded, NotRefreshed, Fallback, Inside
<1>6. CASE Refreshed(c) \/ LoggedIn(c)
  BY <1>3, <1>4, <1>6 DEF Refreshed, LoggedIn, Apply, Inside
<1>7. CASE DeleteRead(c)
  BY <1>3, <1>4, <1>7 DEF DeleteRead, Inside
<1>8. CASE Saved(c) \/ Deleted(c) \/ Raises(c)
  BY <1>3, <1>8 DEF Saved, Deleted, Raises
<1>9. QED
  BY <1>1, <1>2, <1>5, <1>6, <1>7, <1>8 DEF CallerStep

LEMMA OwnedStep == ASSUME Types, Owned, [Next]_vars PROVE Owned'
<1>1. ASSUME NEW c \in Callers, NEW what \in Calls, Call(c, what) PROVE Owned'
  <2>1. /\ place[c] = "idle" /\ UNCHANGED owner
        /\ \A d \in Callers \ {c} : place'[d] = place[d]
    BY <1>1 DEF Call, Go, Types, CallersOK, lockVars
  <2>2. \A s \in Sessions : owner[s] # c
    BY <2>1, NobodyAssumption DEF Owned, Inside
  <2>3. QED
    BY <2>1, <2>2 DEF Owned
<1>2. ASSUME NEW c \in Callers, Cancel(c) PROVE Owned'
  BY <1>2, OwnedLeave DEF Cancel
<1>3. ASSUME NEW s \in Sessions, Crash(s) PROVE Owned'
  <2>1. /\ owner'[s] = Nobody
        /\ \A r \in Sessions \ {s} : owner'[r] = owner[r]
        /\ \A d \in Callers : Of(d) # s => place'[d] = place[d]
    BY <1>3 DEF Crash, Types, CallersOK
  <2>2. QED
    BY <2>1 DEF Owned
<1>4. CASE ThreadStep
  <2>1. CASE UNCHANGED <<place, lockVars>>
    BY <2>1 DEF Owned, lockVars
  <2>2. ASSUME NEW w \in writes, Leave(w.by, "error") PROVE Owned'
    BY <2>2, OwnedLeave DEF Types, TokensOK
  <2>3. QED
    BY <1>4, <2>1, <2>2 DEF ThreadStep, Written, NotWritten, Tried, callerVars
<1>5. CASE Finished \/ UNCHANGED vars
  BY <1>5 DEF Finished, vars, callerVars, lockVars, Owned
<1>6. QED
  BY <1>1, <1>2, <1>3, <1>4, <1>5, OwnedCaller DEF Next

(* WaitsForLiving: after any cancellations and crashes, no caller waits    *)
(* for a lock that nobody is going to leave.                               *)
THEOREM LocksAreLeft == Spec => []WaitsForLiving
<1>1. Init => Owned
  BY DEF Init, Owned
<1>2. Types /\ Owned /\ [Next]_vars => Owned'
  BY OwnedStep
<1>3. ASSUME Types, Locked, Owned PROVE WaitsForLiving
  <2>1. \A c \in Callers : place[c] \in Inside => GoesOn(c) \/ Awaited(c) # {}
    BY DEF GoesOn, Inside
  <2>2. \A c \in Callers : place[c] = "file" /\ ~Abandoned(c) =>
          GoesOn(c) \/ \E d \in holders : GoesOn(d) \/ Awaited(d) # {}
    BY <1>3, <2>1 DEF GoesOn, Locked, Working
  <2>3. ASSUME NEW c \in Callers, place[c] # "idle", ~Abandoned(c)
        PROVE  \E d \in (Callers \cap {c, owner[Of(c)]}) \cup holders :
                 GoesOn(d) \/ Awaited(d) # {}
    <3>1. CASE place[c] \in Inside \cup {"file"}
      BY <2>1, <2>2, <2>3, <3>1
    <3>2. CASE place[c] = "own" /\ owner[Of(c)] = Nobody
      BY <3>2 DEF GoesOn
    <3>3. CASE owner[Of(c)] # Nobody
      <4>1. /\ owner[Of(c)] \in Callers /\ place[owner[Of(c)]] \in Inside \cup {"file"}
            /\ ~Abandoned(owner[Of(c)])
        BY <1>3, <2>3, <3>3, OfType DEF Owned, Abandoned
      <4>2. QED
        BY <2>1, <2>2, <4>1
    <3>4. QED
      BY <1>3, <2>3, <3>1, <3>2, <3>3 DEF Types, CallersOK, Place
  <2>4. QED
    BY <2>3 DEF WaitsForLiving
<1>4. QED
  BY <1>1, <1>2, <1>3, TypesCorrect, LockedCorrect, PTL DEF Spec

=============================================================================
