----------------------------- MODULE MCSessionRun -----------------------------
(* SessionRun on instances small enough for TLC: the sets of faults.       *)
EXTENDS SessionRun

(* The operator acts, nothing else fails.                                  *)
OperatorFaults == {"kill", "delete"}
(* Executions die and calls fail, but the lease can be relied on.          *)
LeaseKeepingFaults == {"kill", "crash", "store_error"}
(* Everything: executions also lose the lease under way, or release it     *)
(* unknowingly.                                                            *)
AllFaults == FaultKinds
=============================================================================
