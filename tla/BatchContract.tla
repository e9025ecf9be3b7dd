---------------------------- MODULE BatchContract ----------------------------
(***************************************************************************)
(* What a batch command of datasphere_core promises to the caller that     *)
(* supplied callbacks, whatever its items do and however often it is       *)
(* cancelled:                                                              *)
(*   - the callbacks for one item are never interleaved with those for     *)
(*     another, and an item's result follows its 'advanced' update;        *)
(*   - no item is reported or delivered twice;                             *)
(*   - results are returned only after every item's result was delivered;  *)
(*   - when control is back at the caller, in whichever way, no callback   *)
(*     is still going and none follows.                                    *)
(***************************************************************************)
CONSTANTS
  Items,      (* items of the batch                                         *)
  Nobody      (* no item: the callbacks are idle                            *)

VARIABLES
  reported,   (* items whose 'advanced' update the caller received          *)
  handed,     (* items whose result the caller received                     *)
  busy,       (* item whose callbacks are going, or Nobody                  *)
  status      (* "open", "returned" or "raised"                             *)

vars == <<reported, handed, busy, status>>

Init ==
  /\ reported = {}
  /\ handed = {}
  /\ busy = Nobody
  /\ status = "open"

Report(i) ==
  /\ status = "open" /\ busy = Nobody /\ i \notin reported
  /\ reported' = reported \cup {i}
  /\ busy' = i
  /\ UNCHANGED <<handed, status>>

Deliver ==
  /\ status = "open" /\ busy # Nobody /\ busy \notin handed
  /\ handed' = handed \cup {busy}
  /\ UNCHANGED <<reported, busy, status>>

(* The item's callbacks returned, raised or were cancelled. *)
Release ==
  /\ status = "open" /\ busy # Nobody
  /\ busy' = Nobody
  /\ UNCHANGED <<reported, handed, status>>

Return ==
  /\ status = "open" /\ busy = Nobody /\ handed = Items
  /\ status' = "returned"
  /\ UNCHANGED <<reported, handed, busy>>

Raise ==
  /\ status = "open" /\ busy = Nobody
  /\ status' = "raised"
  /\ UNCHANGED <<reported, handed, busy>>

Next ==
  \/ \E i \in Items : Report(i)
  \/ Deliver \/ Release \/ Return \/ Raise

Spec == Init /\ [][Next]_vars
=============================================================================
