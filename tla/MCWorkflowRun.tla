----------------------------- MODULE MCWorkflowRun -----------------------------
(* WorkflowRun on small graphs: model values for tasks and ticks.          *)
EXTENDS WorkflowRun, TLC

CONSTANTS a, b, c, tick1, fire

(* Fan-in: c waits for a and b, whose runners race to claim it.            *)
JoinTasks == {a, b, c}
Join == [t \in JoinTasks |-> IF t = c THEN {a, b} ELSE {}]
(* Nothing tells a from b.                                                 *)
EitherBranch == Permutations({a, b})
(* One task.                                                               *)
SoloTasks == {a}
Solo == [t \in SoloTasks |-> {}]
(* A chain, the default of depends_on.                                     *)
ChainTasks == {a, b}
Chain == [t \in ChainTasks |-> IF t = b THEN {a} ELSE {}]

OneTick == {tick1}

(* The subtypes test_workflows.py finishes tasks with, and test_runner.py. *)
EndTurn == {"end_turn"}
Success == {"success"}

Reliable == {}
(* What can go wrong while nobody outlives a window meant for it.          *)
TimelyFaults == {"launch_error", "lost_reply", "exec_dies", "kill"}
(* Launchers that overlap, executions that come up late, an answer lost.   *)
OverlapFaults == {"slow_launch", "slow_start", "lost_reply"}
(* What the scheduler recovers from.                                       *)
ErringFaults == {"launch_error", "exec_dies"}
=============================================================================
