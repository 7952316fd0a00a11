---------------------------- MODULE WorkflowPromise ----------------------------
(***************************************************************************)
(* What one run of a workflow promises (src/src/syros/workflows.py,        *)
(* docs/workflow-design.md, "Execution"), whoever moves it forward and     *)
(* however they race: a task starts once, and only after everything it     *)
(* depends on succeeded; it is skipped only below a failure; an outcome is *)
(* recorded once and stands; the run closes on the outcome of all tasks.   *)
(***************************************************************************)
CONSTANTS Tasks,
          DependsOn   \* the tasks each task waits for

VARIABLES progress,   \* how far each task is
          verdict     \* the run's status

Terminal == {"succeeded", "failed", "skipped"}

Init ==
  /\ progress = [t \in Tasks |-> "pending"]
  /\ verdict = "running"

(* The moves of one task, given where every task stands after the step.    *)
Move(t, after) ==
  \/ after[t] = progress[t]
  \/ /\ progress[t] = "pending" /\ after[t] = "active"
     /\ \A d \in DependsOn[t] : after[d] = "succeeded"
  \/ /\ progress[t] = "pending" /\ after[t] = "skipped"
     /\ \E d \in DependsOn[t] : after[d] \in {"failed", "skipped"}
  \/ progress[t] = "active" /\ after[t] \in {"succeeded", "failed"}

Closing(after) ==
  /\ \A t \in Tasks : after[t] \in Terminal
  /\ verdict' = IF \A t \in Tasks : after[t] = "succeeded" THEN "succeeded" ELSE "failed"

Step ==
  /\ verdict = "running"
  /\ DOMAIN progress' = Tasks
  /\ \A t \in Tasks : Move(t, progress')
  /\ verdict' = "running" \/ Closing(progress')

Spec == Init /\ [][Step]_<<progress, verdict>>
=============================================================================
