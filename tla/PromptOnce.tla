------------------------------ MODULE PromptOnce ------------------------------
(***************************************************************************)
(* What a session lane promises bb about one input, whatever the wire and  *)
(* the daemon do: a command is never replayed, so each input is sent at    *)
(* most once and prime admits it at most once; a call that has returned    *)
(* without an error is not admitted afterwards; a call that failed stays   *)
(* failed, though prime may still admit what was on the wire.              *)
(***************************************************************************)
EXTENDS Naturals

CONSTANT Inputs

VARIABLES
  ledger,     \* how far each input's call has come
  admissions  \* how often prime has admitted each input

Init ==
  /\ ledger = [i \in Inputs |-> "new"]
  /\ admissions = [i \in Inputs |-> 0]

Moves ==
  { <<"new", "waiting">>, <<"new", "sent">>, <<"waiting", "sent">>,
    <<"waiting", "failed">>, <<"sent", "done">>, <<"sent", "failed">> }

(* Several calls may move in one step: one event wakes or fails them all. *)
Advance ==
  /\ ledger' \in [Inputs -> {"new", "waiting", "sent", "done", "failed"}]
  /\ \A i \in Inputs : ledger'[i] = ledger[i] \/ <<ledger[i], ledger'[i]>> \in Moves
  /\ UNCHANGED admissions

Admit(i) ==
  /\ ledger[i] \in {"sent", "failed"}
  /\ admissions[i] = 0
  /\ admissions' = [admissions EXCEPT ![i] = 1]
  /\ UNCHANGED ledger

Next == Advance \/ \E i \in Inputs : Admit(i)

Spec == Init /\ [][Next]_<<ledger, admissions>>
=============================================================================
