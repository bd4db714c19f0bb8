------------------------------ MODULE DaemonWire ------------------------------
(***************************************************************************)
(* What the shared daemon connection promises those who send requests over *)
(* it, and what SessionLane takes for granted: a request made while the    *)
(* wire is down waits, and is never sent twice; a drop fails what was in   *)
(* flight and is told once; then the wire is either restored, and what     *)
(* waited goes out, or given up, and what waited fails.  After that the    *)
(* next request dials afresh, which is told to nobody.                     *)
(***************************************************************************)
EXTENDS Naturals

CONSTANT Requests

VARIABLES
  wire,      \* up, recovering or gone
  told,      \* the event last broadcast
  standing   \* where each request stands

Init ==
  /\ wire = "gone"
  /\ told = "nothing"
  /\ standing = [r \in Requests |-> "new"]

(* Every request that stands at one place moves to another. *)
All(from, to) ==
  standing' = [r \in Requests |-> IF standing[r] = from THEN to ELSE standing[r]]

Ask(r) ==
  /\ standing[r] = "new"
  /\ standing' = [standing EXCEPT ![r] = IF wire = "up" THEN "sent" ELSE "blocked"]
  /\ UNCHANGED <<wire, told>>

(* A request in flight is answered, or its timer fires. *)
Settle(r) ==
  /\ standing[r] = "sent"
  /\ \E end \in {"done", "failed"} : standing' = [standing EXCEPT ![r] = end]
  /\ UNCHANGED <<wire, told>>

Lost ==
  /\ wire = "up" /\ wire' = "recovering"
  /\ told' = "lost"
  /\ All("sent", "failed")

Restored ==
  /\ wire = "recovering" /\ wire' = "up"
  /\ told' = "restored"
  /\ All("blocked", "sent")

Unavailable ==
  /\ wire = "recovering" /\ wire' = "gone"
  /\ told' = "unavailable"
  /\ All("blocked", "failed")

Dialled ==
  /\ wire = "gone" /\ wire' = "up"
  /\ All("blocked", "sent")
  /\ UNCHANGED told

DialFailed ==
  /\ wire = "gone"
  /\ All("blocked", "failed")
  /\ UNCHANGED <<wire, told>>

Next ==
  \/ \E r \in Requests : Ask(r) \/ Settle(r)
  \/ Lost \/ Restored \/ Unavailable \/ Dialled \/ DialFailed

Spec == Init /\ [][Next]_<<wire, told, standing>>
=============================================================================
