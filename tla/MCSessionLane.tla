---------------------------- MODULE MCSessionLane ----------------------------
(* Fault budgets for the runs of SessionLane. *)
EXTENDS SessionLane, TLC

NoFaults == [f \in Faults |-> 0]

InputFaults ==
  "refuse" :> 1 @@ "timeout" :> 1 @@ "merge" :> 1 @@ "foreign" :> 1
  @@ "retry" :> 1 @@ "close" :> 1 @@ "drop" :> 1 @@ NoFaults

WireFaults == "drop" :> 2 @@ "release" :> 1 @@ NoFaults

ReattachRefused == "drop" :> 1 @@ "attach" :> 1 @@ NoFaults
=============================================================================
