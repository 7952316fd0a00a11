--------------------------- MODULE WorkflowRunProofs ---------------------------
(***************************************************************************)
(* What the runs of WorkflowRun show on three tasks at most, proved for    *)
(* every set of tasks and dependencies, any number of ticks and crashes    *)
(* and all the faults: types, order, the single start of each task, and    *)
(* that the run keeps what WorkflowPromise says.                           *)
(***************************************************************************)
EXTENDS WorkflowRun, SessionDocProofs, TLAPS

-----------------------------------------------------------------------------
(* Types.                                                                  *)

LEMMA InitTypeOK == Init => TypeOK
  <1> SUFFICES ASSUME Init PROVE TypeOK
    OBVIOUS
  <1>1. [NewSession EXCEPT !.exists = FALSE] \in SessionDocs
    BY NewSessionType DEF SessionDocs
  <1>2. pc \in [Workers -> Stations]
    BY DEF Init, Stations
  <1>3. /\ task \in [Tasks -> TaskStatuses] /\ session \in [Tasks -> SessionDocs]
        /\ crashes \in 0..MaxCrashes
    BY <1>1, CrashAssumption DEF Init, TaskStatuses
  <1>4. QED
    BY <1>2, <1>3 DEF Init, TypeOK

(* Each pass over the task map yields a task map.                          *)
LEMMA StatusTypes ==
  ASSUME TypeOK
  PROVE  /\ \A outcomes : Recorded(outcomes) \in [Tasks -> TaskStatuses]
         /\ \A status \in [Tasks -> TaskStatuses] :
              /\ Skipped(status) \in [Tasks -> TaskStatuses]
              /\ Launched(status) \in [Tasks -> TaskStatuses]
              /\ Ready(status) \subseteq Tasks
              /\ Verdict(status) \in {"running", "succeeded", "failed"}
  BY DEF TypeOK, Recorded, Skipped, Launched, Ready, Verdict, TaskStatuses

LEMMA WorkerTypeOK ==
  ASSUME TypeOK, NEW w \in Workers, Advance(w) \/ LaunchError(w) \/ Crash(w)
  PROVE  TypeOK'
  <1> USE DEF TypeOK, docVars, sessionVars, workVars, Goto
  <1>a. Tasks \subseteq Workers
    BY DEF Workers
  <1>b. \A s \in Stations : [pc EXCEPT ![w] = s] \in [Workers -> Stations]
    OBVIOUS
  <1>1. CASE Register(w)
    BY <1>1, <1>a, <1>b DEF Register, Stations
  <1>2. CASE Commit(w)
    <2> DEFINE after == Skipped(Recorded(fin[w]))
    <2>1. after \in [Tasks -> TaskStatuses]
      BY StatusTypes
    <2>2. /\ Launched(after) \in [Tasks -> TaskStatuses]
          /\ Ready(after) \subseteq Tasks
      BY <2>1, StatusTypes
    <2>3. task' \in [Tasks -> TaskStatuses]
      BY <1>2, <2>2 DEF Commit
    <2>6. todo' \in [Workers -> SUBSET Tasks]
      BY <1>2, <2>2 DEF Commit
    <2>7. stale' \in [Tasks -> BOOLEAN]
      BY <1>2 DEF Commit
    <2>4. run' \in {"running", "succeeded", "failed"}
      BY <1>2, <2>3, StatusTypes DEF Commit
    <2>5. QED
      BY <1>2, <2>3, <2>4, <2>6, <2>7 DEF Commit, Stations
  <1>3. CASE NextClaimed(w)
    BY <1>3, <1>a, <1>b DEF NextClaimed, Stations
  <1>4. CASE AdvanceDone(w)
    BY <1>4, <1>a, <1>b DEF AdvanceDone, Stations
  <1>5. CASE Lookup(w)
    BY <1>5, <1>a, <1>b DEF Lookup, Stations
  <1>6. CASE Create(w)
    BY <1>6, <1>a, <1>b, NewSessionType DEF Create, Stations
  <1>7. CASE Push(w)
    BY <1>7, <1>a, <1>b DEF Push, Stations
  <1>8. CASE Ensure(w)
    BY <1>8, <1>a, <1>b DEF Ensure, Stations
  <1>9. CASE Trigger(w)
    BY <1>9, <1>a, <1>b DEF Trigger, Stations
  <1>10. CASE Starting(w)
    BY <1>10, <1>a, <1>b, DocTypes DEF Starting, Stations
  <1>11. CASE Mark(w)
    BY <1>11, <1>a, <1>b DEF Mark, Stations, TaskStatuses
  <1>12. CASE LaunchError(w)
    BY <1>12, <1>a, <1>b DEF LaunchError, Stations
  <1>13. CASE Failing(w)
    BY <1>13, <1>a, <1>b DEF Failing, Stations
  <1>14. CASE Fail(w)
    BY <1>14, <1>a, <1>b DEF Fail, Stations, TaskStatuses
  <1>15. CASE Look(w)
    BY <1>15, <1>a, <1>b DEF Look, Stations, OutcomeOf, Outcomes
  <1>16. CASE TickStart(w)
    BY <1>16, <1>a, <1>b DEF TickStart, Stations, Duties
  <1>17. CASE Relaunch(w)
    BY <1>17, <1>a, <1>b DEF Relaunch, Stations, Duties
  <1>18. CASE Inspect(w)
    <2>1. \A d \in left[w] : Derived(d.task) \in Outcomes
      BY DEF Derived, OutcomeOf, Outcomes, Duties
    <2>2. fin' \in [Workers -> SUBSET Outcomes] /\ left' \in [Workers -> SUBSET Duties]
      BY <1>18, <2>1 DEF Inspect
    <2>3. pc' \in [Workers -> Stations]
      BY <1>18, <1>b DEF Inspect, Stations
    <2>4. QED
      BY <1>18, <2>2, <2>3 DEF Inspect
  <1>19. CASE LastAdvance(w)
    BY <1>19, <1>a, <1>b DEF LastAdvance, Stations
  <1>20. CASE Crash(w)
    BY <1>20, <1>a, <1>b, CrashAssumption DEF Crash, Stations
  <1>21. QED
    BY <1>1, <1>2, <1>3, <1>4, <1>5, <1>6, <1>7, <1>8, <1>9, <1>10, <1>11,
       <1>12, <1>13, <1>14, <1>15, <1>16, <1>17, <1>18, <1>19, <1>20 DEF Advance

LEMMA SessionTypeOK ==
  ASSUME TypeOK, NEW t \in Tasks,
         \/ ExecClaim(t) \/ ExecFinish(t) \/ ExecGone(t)
         \/ Kill(t) \/ SessionLapse(t) \/ GoStale(t)
  PROVE  TypeOK'
  <1> USE DEF TypeOK, docVars, sessionVars, workVars, Goto
  <1>a. t \in Workers
    BY DEF Workers
  <1>1. CASE ExecClaim(t)
    <2>1. Claimed(session[t], 1) \in SessionDocs
      BY DocTypes
    <2>2. QED
      BY <1>1, <2>1 DEF ExecClaim
  <1>2. CASE ExecFinish(t)
    BY <1>2, <1>a, DocTypes DEF ExecFinish, Stations
  <1>3. CASE ExecGone(t)
    BY <1>3, <1>a, DocTypes DEF ExecGone, Stations
  <1>4. CASE Kill(t)
    BY <1>4, <1>a, DocTypes DEF Kill, Stations
  <1>5. CASE SessionLapse(t)
    BY <1>5, <1>a, DocTypes DEF SessionLapse, Stations
  <1>6. CASE GoStale(t)
    BY <1>6, <1>a, DocTypes DEF GoStale, Stations
  <1>7. QED
    BY <1>1, <1>2, <1>3, <1>4, <1>5, <1>6

LEMMA NextTypeOK == TypeOK /\ [Next]_vars => TypeOK'
  <1> SUFFICES ASSUME TypeOK, [Next]_vars PROVE TypeOK'
    OBVIOUS
  <1>1. CASE Next
    BY <1>1, WorkerTypeOK, SessionTypeOK DEF Next
  <1>2. CASE UNCHANGED vars
    BY <1>2 DEF vars, TypeOK
  <1>3. QED
    BY <1>1, <1>2

(* The documents of a run and of its sessions, and what every worker holds *)
(* in memory, stay of their types.                                         *)
THEOREM TypeCorrect == Spec => []TypeOK
  <1>1. QED
    BY InitTypeOK, NextTypeOK, PTL DEF Spec

-----------------------------------------------------------------------------
(* How one step moves a task.                                              *)

(* Whoever is in the cone of a failure has a dependency that failed or is  *)
(* in the cone itself: without it, the cone would not be the least.        *)
LEMMA SkipConeIsGrounded ==
  ASSUME NEW status \in [Tasks -> TaskStatuses], NEW t \in SkipCone(status)
  PROVE  \E d \in DependsOn[t] : Skipped(status)[d] \in {"failed", "skipped"}
  <1> DEFINE Cone == SkipCone(status)
  <1>1. Cone \subseteq Tasks /\ t \in Tasks
    BY DEF SkipCone
  <1>2. SkipClosed(status, Cone)
    BY DEF SkipClosed, SkipCone
  <1>3. ~SkipClosed(status, Cone \ {t})
    BY <1>1 DEF SkipCone
  <1>4. PICK u \in Tasks :
           /\ status[u] = "pending"
           /\ \E d \in DependsOn[u] : status[d] \in {"failed", "skipped"} \/ d \in Cone \ {t}
           /\ u \notin Cone \ {t}
    BY <1>3 DEF SkipClosed
  <1>5. u \in Cone
    BY <1>2, <1>4 DEF SkipClosed
  <1>6. u = t
    BY <1>4, <1>5
  <1>7. PICK d \in DependsOn[t] : status[d] \in {"failed", "skipped"} \/ d \in Cone
    BY <1>4, <1>6
  <1>8. d \in Tasks
    BY <1>1, TaskAssumption
  <1>9. QED
    BY <1>7, <1>8 DEF Skipped

(* What may become of a task in one step of anybody.                       *)
TaskMove(t) ==
  \/ task'[t] = task[t]
  \/ /\ task[t] = "pending" /\ task'[t] = "launching"
     /\ \A d \in DependsOn[t] : task'[d] = "succeeded"
  \/ /\ task[t] = "pending" /\ task'[t] = "skipped"
     /\ \E d \in DependsOn[t] : task'[d] \in {"failed", "skipped"}
  \/ /\ task[t] \in {"launching", "running"}
     /\ task'[t] \in {"running", "succeeded", "failed"}

(* A transaction of _advance: what is recorded, skipped and claimed in it  *)
(* is read off where the other tasks stand after it.                       *)
LEMMA CommitMoves ==
  ASSUME TypeOK, OrderInv, NEW w \in Workers, Commit(w),
         run = "running", ~Raced(fin[w])
  PROVE  /\ \A t \in Tasks : TaskMove(t)
         /\ Ready(Skipped(Recorded(fin[w]))) \subseteq {t \in Tasks : task'[t] = "launching"}
         /\ run' = Verdict(task')
  <1> DEFINE recorded == Recorded(fin[w])
             after == Skipped(recorded)
  <1>1. recorded \in [Tasks -> TaskStatuses] /\ after \in [Tasks -> TaskStatuses]
    BY StatusTypes
  <1>2. task' = Launched(after) /\ run' = Verdict(task')
    BY DEF Commit
  <1>3. ASSUME NEW t \in Tasks
        PROVE  \/ recorded[t] = task[t]
               \/ /\ task[t] \in {"launching", "running"}
                  /\ recorded[t] \in {"succeeded", "failed"}
    <2>1. CASE \E o \in fin[w] : o.task = t
      <3>1. task[t] \notin Terminal
        BY <2>1 DEF Raced
      <3>2. t \in Begun
        BY <2>1 DEF OrderInv, HeldHasBegun
      <3>3. task[t] \in {"launching", "running"}
        BY <3>1, <3>2 DEF TypeOK, TaskStatuses, Terminal, Begun
      <3>4. QED
        BY <3>3 DEF Recorded
    <2>2. CASE ~\E o \in fin[w] : o.task = t
      BY <2>2 DEF Recorded
    <2>3. QED
      BY <2>1, <2>2
  <1>4. ASSUME NEW t \in Tasks
        PROVE  \/ after[t] = recorded[t]
               \/ /\ recorded[t] = "pending" /\ after[t] = "skipped"
                  /\ \E d \in DependsOn[t] : after[d] \in {"failed", "skipped"}
    BY <1>1, SkipConeIsGrounded DEF Skipped, SkipCone
  <1>5. ASSUME NEW t \in Tasks
        PROVE  \/ task'[t] = after[t]
               \/ /\ after[t] = "pending" /\ task'[t] = "launching"
                  /\ \A d \in DependsOn[t] : after[d] = "succeeded"
    BY <1>2 DEF Launched, Ready
  <1>6. \A t \in Tasks : after[t] # "pending" => task'[t] = after[t]
    BY <1>5
  <1>7. ASSUME NEW t \in Tasks PROVE DependsOn[t] \subseteq Tasks
    BY TaskAssumption
  <1>8. ASSUME NEW t \in Tasks PROVE TaskMove(t)
    BY <1>3, <1>4, <1>5, <1>6, <1>7 DEF TaskMove
  <1>9. QED
    BY <1>2, <1>8 DEF Launched, Ready

(* Every step moves every task that way, and touches the run only while it *)
(* is running.                                                             *)
LEMMA StepMoves ==
  ASSUME TypeOK, OrderInv, Next
  PROVE  /\ \A t \in Tasks : TaskMove(t)
         /\ \/ run' = run /\ task' = task
            \/ run = "running" /\ run' \in {"running", Verdict(task')}
  <1> USE DEF docVars, TaskMove
  <1>1. ASSUME NEW w \in Workers, Commit(w)
        PROVE  \/ run' = run /\ task' = task
               \/ /\ run = "running" /\ run' = Verdict(task')
                  /\ \A t \in Tasks : TaskMove(t)
    <2>1. CASE run # "running" \/ Raced(fin[w])
      BY <1>1, <2>1 DEF Commit
    <2>2. CASE run = "running" /\ ~Raced(fin[w])
      BY <1>1, <2>2, CommitMoves
    <2>3. QED
      BY <2>1, <2>2
  <1>2. ASSUME NEW w \in Workers, Mark(w) \/ Fail(w)
        PROVE  /\ \A t \in Tasks : TaskMove(t)
               /\ run' = run
               /\ task' # task => run = "running"
    <2>1. PICK u \in at[w] :
             \/ task' = task
             \/ /\ task[u] = "launching"
                /\ task' \in {[task EXCEPT ![u] = "running"], [task EXCEPT ![u] = "failed"]}
      BY <1>2 DEF Mark, Fail, TypeOK
    <2>2. run' = run
      BY <1>2 DEF Mark, Fail
    <2>3. u \in Tasks
      BY DEF TypeOK
    <2>4. task[u] = "launching" => run = "running"
      BY <2>3 DEF OrderInv, ClosedIsOver, Terminal
    <2>5. QED
      BY <2>1, <2>2, <2>3, <2>4 DEF TypeOK
  <1>3. ASSUME NEW w \in Workers, Advance(w) \/ LaunchError(w) \/ Crash(w),
               ~Commit(w), ~Mark(w), ~Fail(w)
        PROVE  run' = run /\ task' = task
    BY <1>3 DEF Advance, LaunchError, Crash, Register, Look, NextClaimed, AdvanceDone, Lookup,
                Create, Push, Ensure, Trigger, Starting, Failing, TickStart, Relaunch,
                Inspect, LastAdvance
  <1>4. ASSUME NEW t \in Tasks,
               \/ ExecClaim(t) \/ ExecFinish(t) \/ ExecGone(t)
               \/ Kill(t) \/ SessionLapse(t) \/ GoStale(t)
        PROVE  run' = run /\ task' = task
    BY <1>4 DEF ExecClaim, ExecFinish, ExecGone, Kill, SessionLapse, GoStale
  <1>5. CASE \E w \in Workers : Advance(w) \/ LaunchError(w) \/ Crash(w)
    BY <1>1, <1>2, <1>3, <1>5
  <1>6. QED
    BY <1>4, <1>5 DEF Next

-----------------------------------------------------------------------------
(* Order.                                                                  *)

LEMMA BegunStays ==
  ASSUME TypeOK, OrderInv, Next
  PROVE  Begun \subseteq Begun'
  <1>1. \A t \in Tasks : TaskMove(t)
    BY StepMoves
  <1>2. QED
    BY <1>1 DEF Begun, TaskMove

LEMMA NextBegunInOrder ==
  ASSUME TypeOK, OrderInv, Next
  PROVE  BegunInOrder'
  <1>1. \A t \in Tasks : TaskMove(t)
    BY StepMoves
  <1>2. ASSUME NEW t \in Begun' PROVE \A d \in DependsOn[t] : task'[d] = "succeeded"
    <2>1. t \in Tasks /\ DependsOn[t] \subseteq Tasks
      BY <1>2, TaskAssumption DEF Begun
    <2>2. CASE t \in Begun
      <3>1. \A d \in DependsOn[t] : task[d] = "succeeded"
        BY <2>2 DEF OrderInv, BegunInOrder
      <3>2. QED
        BY <1>1, <2>1, <3>1 DEF TaskMove
    <2>3. CASE t \notin Begun
      BY <1>1, <1>2, <2>1, <2>3 DEF Begun, TaskMove
    <2>4. QED
      BY <2>2, <2>3
  <1>3. QED
    BY <1>2 DEF BegunInOrder

LEMMA NextClosedIsOver ==
  ASSUME TypeOK, OrderInv, Next
  PROVE  ClosedIsOver'
  <1>1. \/ run' = run /\ task' = task
        \/ run' = "running"
        \/ run' = Verdict(task')
    BY StepMoves
  <1>2. QED
    BY <1>1 DEF OrderInv, ClosedIsOver, Verdict

(* A worker takes up only what it claimed, read in the run or ran itself.  *)
LEMMA NextHeldHasBegun ==
  ASSUME TypeOK, OrderInv, Next
  PROVE  HeldHasBegun'
  <1> USE DEF docVars, workVars, TypeOK, OrderInv, HeldHasBegun
  <1>1. Begun \subseteq Begun'
    BY BegunStays
  <1>2. ASSUME NEW w \in Workers, Commit(w) PROVE HeldHasBegun'
    <2>1. CASE run # "running" \/ Raced(fin[w])
      BY <1>1, <1>2, <2>1 DEF Commit
    <2>2. CASE run = "running" /\ ~Raced(fin[w])
      <3>1. Ready(Skipped(Recorded(fin[w]))) \subseteq Begun'
        BY <1>2, <2>2, CommitMoves DEF Begun
      <3>2. QED
        BY <1>1, <1>2, <2>2, <3>1 DEF Commit
    <2>3. QED
      BY <2>1, <2>2
  <1>3. ASSUME NEW w \in Workers, NextClaimed(w) PROVE HeldHasBegun'
    BY <1>1, <1>3 DEF NextClaimed
  <1>4. ASSUME NEW w \in Workers, Mark(w) \/ Failing(w) \/ Fail(w) PROVE HeldHasBegun'
    BY <1>1, <1>4 DEF Mark, Failing, Fail
  <1>5. ASSUME NEW w \in Workers, Look(w) PROVE HeldHasBegun'
    BY <1>1, <1>5 DEF Look, OutcomeOf, LiveHasBegun
  <1>6. ASSUME NEW w \in Workers, TickStart(w) PROVE HeldHasBegun'
    BY <1>1, <1>6 DEF TickStart, Duties, Begun
  <1>7. ASSUME NEW w \in Workers, Relaunch(w) PROVE HeldHasBegun'
    BY <1>1, <1>7 DEF Relaunch
  <1>8. ASSUME NEW w \in Workers, Inspect(w) PROVE HeldHasBegun'
    BY <1>1, <1>8 DEF Inspect, Derived, OutcomeOf
  <1>9. ASSUME NEW w \in Workers, LastAdvance(w) \/ Crash(w) PROVE HeldHasBegun'
    BY <1>1, <1>9 DEF LastAdvance, Crash
  <1>10. ASSUME NEW w \in Workers,
                \/ Register(w) \/ AdvanceDone(w) \/ Lookup(w) \/ Create(w) \/ Push(w)
                \/ Ensure(w) \/ Trigger(w) \/ Starting(w) \/ LaunchError(w)
         PROVE  HeldHasBegun'
    BY <1>1, <1>10 DEF Register, AdvanceDone, Lookup, Create, Push, Ensure, Trigger, Starting,
                       LaunchError
  <1>11. ASSUME NEW t \in Tasks,
                \/ ExecClaim(t) \/ ExecFinish(t) \/ ExecGone(t)
                \/ Kill(t) \/ SessionLapse(t) \/ GoStale(t)
         PROVE  HeldHasBegun'
    BY <1>1, <1>11 DEF ExecClaim, ExecFinish, ExecGone, Kill, SessionLapse, GoStale
  <1>12. QED
    BY <1>2, <1>3, <1>4, <1>5, <1>6, <1>7, <1>8, <1>9, <1>10, <1>11 DEF Next, Advance

(* Only a task somebody holds gets a prompt or an execution.               *)
LEMMA NextLiveHasBegun ==
  ASSUME TypeOK, OrderInv, Next
  PROVE  LiveHasBegun'
  <1> USE DEF docVars, workVars, sessionVars, TypeOK, OrderInv, LiveHasBegun, Goto
  <1>1. Begun \subseteq Begun'
    BY BegunStays
  <1>2. ASSUME NEW w \in Workers, Push(w) PROVE LiveHasBegun'
    BY <1>1, <1>2 DEF Push, HeldHasBegun
  <1>3. ASSUME NEW w \in Workers, Trigger(w) PROVE LiveHasBegun'
    BY <1>1, <1>3 DEF Trigger, HeldHasBegun
  <1>4. ASSUME NEW w \in Workers, Advance(w) \/ LaunchError(w) \/ Crash(w),
               ~Push(w), ~Trigger(w)
        PROVE  LiveHasBegun'
    <2>1. exec' = exec /\ prompts' = prompts
      BY <1>4 DEF Advance, LaunchError, Crash, Register, Look, Commit, NextClaimed, AdvanceDone,
                  Lookup, Create, Ensure, Starting, Mark, Failing, Fail, TickStart, Relaunch,
                  Inspect, LastAdvance
    <2>2. \A v \in Workers : pc'[v] = "look" => pc[v] = "look"
      BY <1>4 DEF Advance, LaunchError, Crash, Register, Look, Commit, NextClaimed, AdvanceDone,
                  Lookup, Create, Ensure, Starting, Mark, Failing, Fail, TickStart, Relaunch,
                  Inspect, LastAdvance
    <2>3. QED
      BY <1>1, <2>1, <2>2 DEF Workers
  <1>5. ASSUME NEW t \in Tasks, ExecClaim(t) \/ ExecFinish(t) \/ ExecGone(t)
        PROVE  LiveHasBegun'
    BY <1>1, <1>5 DEF ExecClaim, ExecFinish, ExecGone, Workers
  <1>6. ASSUME NEW t \in Tasks, Kill(t) \/ SessionLapse(t) \/ GoStale(t)
        PROVE  LiveHasBegun'
    BY <1>1, <1>6 DEF Kill, SessionLapse, GoStale
  <1>7. QED
    BY <1>2, <1>3, <1>4, <1>5, <1>6 DEF Next

LEMMA NextOrderInv == TypeOK /\ OrderInv /\ [Next]_vars => OrderInv'
  <1> SUFFICES ASSUME TypeOK, OrderInv, [Next]_vars PROVE OrderInv'
    OBVIOUS
  <1>1. CASE Next
    BY <1>1, NextBegunInOrder, NextHeldHasBegun, NextLiveHasBegun, NextClosedIsOver
       DEF OrderInv
  <1>2. CASE UNCHANGED vars
    BY <1>2 DEF vars, OrderInv, BegunInOrder, HeldHasBegun, LiveHasBegun, ClosedIsOver, Begun
  <1>3. QED
    BY <1>1, <1>2

LEMMA InitOrderInv == Init => OrderInv
  BY DEF Init, OrderInv, BegunInOrder, HeldHasBegun, LiveHasBegun, ClosedIsOver, Begun, Workers

(* A closed run stays closed, and in a run every task that was ever        *)
(* claimed stands on dependencies that succeeded.                          *)
THEOREM OrderHolds == Spec => []OrderInv
  <1>1. QED
    BY InitOrderInv, NextOrderInv, TypeCorrect, PTL DEF Spec

(* No prompt goes out before everything the task depends on has succeeded, *)
(* whatever fails, overlaps or dies.                                       *)
THEOREM PromptsInOrder == Spec => []PromptedInOrder
  <1>1. TypeOK /\ OrderInv => PromptedInOrder
    BY DEF TypeOK, OrderInv, LiveHasBegun, BegunInOrder, PromptedInOrder
  <1>2. QED
    BY <1>1, TypeCorrect, OrderHolds, PTL

-----------------------------------------------------------------------------
(* The single start.                                                       *)

LEMMA InitStartInv == Init => StartInv
  BY DEF Init, StartInv, OneStarter, LaunchedOnce, Pushing

(* Create: the session was not there, so nobody else is about to push.     *)
LEMMA CreateStarts ==
  ASSUME TypeOK, StartInv, NEW w \in Workers, Create(w)
  PROVE  StartInv'
  <1> USE DEF docVars, TypeOK, StartInv, OneStarter, Pushing, LaunchedOnce
  <1>1. PICK t \in at[w] :
          \/ session' = session /\ pc' = [pc EXCEPT ![w] = "mark"]
          \/ /\ ~session[t].exists /\ session' = [session EXCEPT ![t] = NewSession]
             /\ pc' \in {[pc EXCEPT ![w] = "push"], [pc EXCEPT ![w] = "mark"]}
    BY DEF Create, Goto
  <1>2. at' = at /\ prompts' = prompts
    BY DEF Create
  <1>3. CASE session' = session /\ pc' = [pc EXCEPT ![w] = "mark"]
    BY <1>2, <1>3
  <1>4. CASE /\ ~session[t].exists /\ session' = [session EXCEPT ![t] = NewSession]
             /\ pc' \in {[pc EXCEPT ![w] = "push"], [pc EXCEPT ![w] = "mark"]}
    <2>1. \A u \in Tasks : session[u].exists => session'[u].exists
      BY <1>4 DEF NewSession
    <2>2. session'[t].exists /\ t \in Tasks
      BY <1>4 DEF NewSession
    <2>3. \A v \in Workers : ~Pushing(v, t)
      BY <1>4, <2>2
    <2>4. \A u \in Tasks : Pushing(w, u)' => u = t
      BY <1>2
    <2>5. \A v \in Workers, u \in Tasks : v # w => (Pushing(v, u)' <=> Pushing(v, u))
      BY <1>2, <1>4
    <2>6. QED
      BY SMTT(30), <1>2, <1>4, <2>1, <2>2, <2>3, <2>4, <2>5
  <1>5. QED
    BY <1>1, <1>3, <1>4

(* Push: whoever pushes was the only one about to, and stops being that.   *)
LEMMA PushStarts ==
  ASSUME TypeOK, StartInv, NEW w \in Workers, Push(w)
  PROVE  StartInv'
  <1> USE DEF docVars, TypeOK, StartInv, OneStarter, Pushing, LaunchedOnce
  <1>1. PICK t \in at[w] : prompts' = [prompts EXCEPT ![t] = @ + 1]
    BY DEF Push
  <1>2. /\ pc[w] = "push" /\ pc' = [pc EXCEPT ![w] = "ensure"]
        /\ at' = at /\ session' = session
    BY DEF Push, Goto
  <1>3. t \in Tasks /\ prompts[t] = 0 /\ session[t].exists
    BY <1>2
  <1>4. prompts'[t] = 1 /\ \A u \in Tasks : u # t => prompts'[u] = prompts[u]
    BY <1>1, <1>3
  <1>5. \A v \in Workers, u \in Tasks : Pushing(v, u)' => Pushing(v, u) /\ v # w /\ u # t
    BY <1>2, <1>3
  <1>6. QED
    BY <1>2, <1>3, <1>4, <1>5

LEMMA NextStartInv == TypeOK /\ StartInv /\ [Next]_vars => StartInv'
  <1> SUFFICES ASSUME TypeOK, StartInv, [Next]_vars PROVE StartInv'
    OBVIOUS
  <1> USE DEF docVars, sessionVars, workVars, TypeOK, StartInv, OneStarter, Pushing, LaunchedOnce,
              Goto
  <1>1. ASSUME NEW w \in Workers, Create(w) \/ Push(w) PROVE StartInv'
    BY <1>1, CreateStarts, PushStarts
  <1>2. ASSUME NEW w \in Workers, NextClaimed(w) \/ Relaunch(w) PROVE StartInv'
    <2>1. \E t \in Tasks : at' = [at EXCEPT ![w] = {t}]
      <3>1. CASE NextClaimed(w)
        BY <3>1 DEF NextClaimed
      <3>2. CASE Relaunch(w)
        <4>1. PICK d \in left[w] : at' = [at EXCEPT ![w] = {d.task}]
          BY <3>2 DEF Relaunch
        <4>2. d.task \in Tasks
          BY DEF Duties
        <4>3. QED
          BY <4>1, <4>2
      <3>3. QED
        BY <1>2, <3>1, <3>2
    <2>2. session' = session /\ prompts' = prompts /\ pc' = [pc EXCEPT ![w] = "lookup"]
      BY <1>2 DEF NextClaimed, Relaunch
    <2>3. QED
      BY <2>1, <2>2
  <1>3. ASSUME NEW w \in Workers, Mark(w) \/ Failing(w) \/ Fail(w) \/ Crash(w) PROVE StartInv'
    <2>1. at' \in {at, [at EXCEPT ![w] = {}]}
      BY <1>3 DEF Mark, Failing, Fail, Crash
    <2>2. /\ session' = session /\ prompts' = prompts
          /\ \A v \in Workers : pc'[v] = "push" => pc[v] = "push" /\ v # w
      BY <1>3 DEF Mark, Failing, Fail, Crash
    <2>3. \A v \in Workers : v # w => at'[v] = at[v]
      BY <2>1
    <2>4. \A v \in Workers : \A t, u \in at'[v] : t = u
      BY SMTT(30), <2>1
    <2>5. \A v \in Workers, t \in Tasks : Pushing(v, t)' => Pushing(v, t)
      BY <2>2, <2>3
    <2>6. QED
      BY <2>2, <2>4, <2>5
  <1>4. ASSUME NEW w \in Workers, Starting(w) PROVE StartInv'
    BY <1>4, DocStands DEF Starting
  <1>5. ASSUME NEW w \in Workers,
               \/ Register(w) \/ Look(w) \/ Commit(w) \/ AdvanceDone(w) \/ Lookup(w)
               \/ Ensure(w) \/ Trigger(w) \/ LaunchError(w)
               \/ TickStart(w) \/ Inspect(w) \/ LastAdvance(w)
        PROVE  StartInv'
    <2>1. at' = at /\ session' = session /\ prompts' = prompts
      BY <1>5 DEF Register, Look, Commit, AdvanceDone, Lookup, Ensure, Trigger, LaunchError,
                  TickStart, Inspect, LastAdvance
    <2>2. \A v \in Workers : pc'[v] = "push" => pc[v] = "push"
      BY <1>5 DEF Register, Look, Commit, AdvanceDone, Lookup, Ensure, Trigger, LaunchError,
                  TickStart, Inspect, LastAdvance
    <2>3. QED
      BY <2>1, <2>2
  <1>6. ASSUME NEW t \in Tasks,
               \/ ExecClaim(t) \/ ExecFinish(t) \/ ExecGone(t)
               \/ Kill(t) \/ SessionLapse(t) \/ GoStale(t)
        PROVE  StartInv'
    <2>1. at' = at /\ prompts' = prompts
      BY <1>6 DEF ExecClaim, ExecFinish, ExecGone, Kill, SessionLapse, GoStale
    <2>2. \A v \in Workers : pc'[v] = "push" => pc[v] = "push"
      BY <1>6 DEF ExecClaim, ExecFinish, ExecGone, Kill, SessionLapse, GoStale, Workers
    <2>3. /\ Claimed(session[t], 1).exists = session[t].exists
          /\ Released(session[t]).exists = session[t].exists
          /\ Killed(session[t]).exists = session[t].exists
          /\ Aged(session[t]).exists = session[t].exists
      BY DocStands
    <2>4. \A u \in Tasks : session'[u].exists = session[u].exists
      BY <1>6, <2>3 DEF ExecClaim, ExecFinish, ExecGone, Kill, SessionLapse, GoStale
    <2>5. QED
      BY <2>1, <2>2, <2>4
  <1>7. CASE UNCHANGED vars
    BY <1>7 DEF vars
  <1>8. QED
    BY <1>1, <1>2, <1>3, <1>4, <1>5, <1>6, <1>7 DEF Next, Advance

LEMMA StartHolds == Spec => []StartInv
  <1>1. QED
    BY InitStartInv, NextStartInv, TypeCorrect, PTL DEF Spec

(* However many launchers meet under the session id of a task, overtake    *)
(* each other, fail or die, its prompt is queued once at most.             *)
THEOREM SingleStart == Spec => []LaunchedOnce
  <1>1. StartInv => LaunchedOnce
    BY DEF StartInv
  <1>2. QED
    BY <1>1, StartHolds, PTL

-----------------------------------------------------------------------------
(* Nothing is left to nobody.                                              *)

LEMMA NextClaimedAtOnce ==
  ASSUME TypeOK, OrderInv, ClaimedAtOnce, [Next]_vars
  PROVE  ClaimedAtOnce'
  <1> USE DEF ClaimedAtOnce
  <1>1. ASSUME NEW w \in Workers, Commit(w), task' # task
        PROVE  ClaimedAtOnce'
    <2> DEFINE after == Skipped(Recorded(fin[w]))
    <2>1. task' = Launched(after)
      BY <1>1 DEF Commit
    <2>2. ASSUME NEW t \in Tasks, task'[t] = "pending"
          PROVE  \E d \in DependsOn[t] : task'[d] # "succeeded"
      <3>1. after[t] = "pending" /\ t \notin Ready(after)
        BY <2>1, <2>2 DEF Launched
      <3>2. PICK d \in DependsOn[t] : after[d] # "succeeded"
        BY <3>1 DEF Ready
      <3>3. d \in Tasks
        BY TaskAssumption
      <3>4. task'[d] # "succeeded"
        BY <2>1, <3>2, <3>3 DEF Launched
      <3>5. QED
        BY <3>4
    <2>3. QED
      BY <2>2
  <1>2. ASSUME NEW w \in Workers, Mark(w) \/ Fail(w)
        PROVE  ClaimedAtOnce'
    BY <1>2, TaskAssumption DEF Mark, Fail, TypeOK
  <1>3. CASE task' = task
    BY <1>3
  <1>4. ASSUME NEW w \in Workers, Advance(w) \/ LaunchError(w) \/ Crash(w),
               ~Commit(w), ~Mark(w), ~Fail(w)
        PROVE  task' = task
    BY <1>4 DEF docVars, Advance, LaunchError, Crash, Register, Look, NextClaimed, AdvanceDone,
                Lookup, Create, Push, Ensure, Trigger, Starting, Failing, TickStart, Relaunch,
                Inspect, LastAdvance
  <1>5. ASSUME NEW t \in Tasks,
               \/ ExecClaim(t) \/ ExecFinish(t) \/ ExecGone(t)
               \/ Kill(t) \/ SessionLapse(t) \/ GoStale(t)
        PROVE  task' = task
    BY <1>5 DEF docVars, ExecClaim, ExecFinish, ExecGone, Kill, SessionLapse, GoStale
  <1>6. QED
    BY <1>1, <1>2, <1>3, <1>4, <1>5 DEF Next, vars

(* A task whose dependencies have all succeeded is claimed by whoever      *)
(* recorded the last of them.                                              *)
THEOREM NothingLeftUnclaimed == Spec => []ClaimedAtOnce
  <1>1. Init => ClaimedAtOnce
    BY TaskAssumption DEF Init, ClaimedAtOnce
  <1>2. TypeOK /\ OrderInv /\ ClaimedAtOnce /\ [Next]_vars => ClaimedAtOnce'
    BY NextClaimedAtOnce
  <1>3. QED
    BY <1>1, <1>2, TypeCorrect, OrderHolds, PTL DEF Spec

-----------------------------------------------------------------------------
(* The promise.                                                            *)

LEMMA InitPromise == Init => Promise!Init
  BY DEF Init, Promise!Init

LEMMA StepPromise ==
  ASSUME TypeOK, OrderInv, Next
  PROVE  \/ Promise!Step
         \/ UNCHANGED <<[t \in Tasks |-> IF task[t] \in {"launching", "running"}
                                         THEN "active" ELSE task[t]], run>>
  <1> DEFINE Seen(s) == IF s \in {"launching", "running"} THEN "active" ELSE s
  <1>1. \A t \in Tasks : TaskMove(t)
    BY StepMoves
  <1>2. CASE run' = run /\ task' = task
    BY <1>2
  <1>3. CASE run = "running" /\ run' \in {"running", Verdict(task')}
    <2> DEFINE now == [t \in Tasks |-> Seen(task[t])]
               then == [t \in Tasks |-> Seen(task'[t])]
    <2>1. task \in [Tasks -> TaskStatuses] /\ task' \in [Tasks -> TaskStatuses]
      BY NextTypeOK DEF TypeOK
    <2>2. ASSUME NEW t \in Tasks
          PROVE  \/ then[t] = now[t]
                 \/ /\ now[t] = "pending" /\ then[t] = "active"
                    /\ \A d \in DependsOn[t] : then[d] = "succeeded"
                 \/ /\ now[t] = "pending" /\ then[t] = "skipped"
                    /\ \E d \in DependsOn[t] : then[d] \in {"failed", "skipped"}
                 \/ now[t] = "active" /\ then[t] \in {"succeeded", "failed"}
      <3>1. DependsOn[t] \subseteq Tasks
        BY TaskAssumption
      <3>2. TaskMove(t)
        BY <1>1
      <3>3. QED
        BY <3>1, <3>2 DEF TaskMove
    <2>3. ASSUME run' # "running"
          PROVE  /\ \A t \in Tasks : then[t] \in {"succeeded", "failed", "skipped"}
                 /\ run' = IF \A t \in Tasks : then[t] = "succeeded"
                           THEN "succeeded" ELSE "failed"
      BY <1>3, <2>3 DEF Verdict, Terminal
    <2>4. Promise!Step
      BY <1>3, <2>2, <2>3 DEF Promise!Step, Promise!Move, Promise!Closing, Promise!Terminal
    <2>5. QED
      BY <2>4
  <1>4. QED
    BY <1>2, <1>3, StepMoves

(* The run, moved by launchers, runners and ticks that race and die, is a  *)
(* run as the documentation promises it.                                   *)
THEOREM PromiseKept == Spec => KeepsPromise
  <1>1. TypeOK /\ OrderInv /\ [Next]_vars
          => [Promise!Step]_<<[t \in Tasks |-> IF task[t] \in {"launching", "running"}
                                              THEN "active" ELSE task[t]], run>>
    BY StepPromise DEF vars
  <1>2. QED
    BY <1>1, InitPromise, TypeCorrect, OrderHolds, PTL DEF Spec, KeepsPromise, Promise!Spec

-----------------------------------------------------------------------------
(* What becomes of a launch, while nobody outlives a window meant for it.  *)

LEMMA NextHandsMatch ==
  ASSUME TypeOK, HandsMatchStation, Next
  PROVE  HandsMatchStation'
  <1> USE DEF TypeOK, HandsMatchStation, docVars, sessionVars, workVars, Goto, Stations
  <1>1. ASSUME NEW w \in Workers,
               Register(w) \/ Look(w) \/ Commit(w) \/ NextClaimed(w) \/ AdvanceDone(w)
        PROVE  HandsMatchStation'
    BY <1>1 DEF Register, Look, Commit, NextClaimed, AdvanceDone
  <1>2. ASSUME NEW w \in Workers,
               Lookup(w) \/ Create(w) \/ Push(w) \/ Ensure(w) \/ Trigger(w) \/ Starting(w)
        PROVE  HandsMatchStation'
    BY <1>2 DEF Lookup, Create, Push, Ensure, Trigger, Starting
  <1>3. ASSUME NEW w \in Workers,
               Mark(w) \/ Failing(w) \/ Fail(w) \/ LaunchError(w) \/ Crash(w)
        PROVE  HandsMatchStation'
    BY <1>3 DEF Mark, Failing, Fail, LaunchError, Crash
  <1>4. ASSUME NEW w \in Workers,
               TickStart(w) \/ Relaunch(w) \/ Inspect(w) \/ LastAdvance(w)
        PROVE  HandsMatchStation'
    BY <1>4 DEF TickStart, Relaunch, Inspect, LastAdvance
  <1>5. ASSUME NEW t \in Tasks,
               \/ ExecClaim(t) \/ ExecFinish(t) \/ ExecGone(t)
               \/ Kill(t) \/ SessionLapse(t) \/ GoStale(t)
        PROVE  HandsMatchStation'
    BY <1>5 DEF ExecClaim, ExecFinish, ExecGone, Kill, SessionLapse, GoStale, Workers
  <1>6. QED
    BY <1>1, <1>2, <1>3, <1>4, <1>5 DEF Next, Advance

(* What _advance claims was pending, so nobody held it.                    *)
LEMMA ClaimsPending ==
  ASSUME TypeOK, OrderInv, NEW w \in Workers, Commit(w)
  PROVE  /\ \A t \in Tasks : t \in todo'[w] => t \in todo[w] \/ task[t] = "pending"
         /\ \A v \in Workers : v # w => todo'[v] = todo[v]
         /\ todo[w] \subseteq todo'[w]
         /\ \A t \in Tasks : stale'[t] => stale[t] /\ (t \in todo[w] \/ t \notin todo'[w])
  <1> DEFINE recorded == Recorded(fin[w])
             after == Skipped(recorded)
  <1>1. ASSUME NEW t \in Ready(after) PROVE task[t] = "pending"
    <2>1. t \in Tasks /\ after[t] = "pending"
      BY DEF Ready
    <2>2. recorded[t] = "pending"
      BY <2>1 DEF Skipped
    <2>3. QED
      BY <2>1, <2>2 DEF Recorded
  <1>2. \/ todo' = todo /\ stale' = stale
        \/ /\ todo' = [todo EXCEPT ![w] = @ \cup Ready(after)]
           /\ stale' = [t \in Tasks |-> stale[t] /\ t \notin Ready(after)]
    BY DEF Commit
  <1> HIDE DEF recorded, after
  <1>3. QED
    BY ZenonT(60), <1>1, <1>2 DEF TypeOK

LEMMA NextOneHolder ==
  ASSUME TypeOK, OrderInv, Timely, HandsMatchStation, OneHolder, Next
  PROVE  OneHolder'
  <1> USE DEF TypeOK, OneHolder, InHand, ToRelaunch, docVars, sessionVars, workVars, Goto
  <1>1. ASSUME NEW w \in Workers, Commit(w) PROVE OneHolder'
    <2>1. \A v \in Workers, t \in Tasks : task[t] = "pending" => t \notin InHand(v)
      BY DEF OrderInv, HeldHasBegun, Begun
    <2>2. UNCHANGED <<at, left>>
      BY <1>1 DEF Commit
    <2>3. /\ \A v \in Workers : at'[v] = at[v] /\ left'[v] = left[v]
          /\ \A v \in Workers : ToRelaunch(v)' = ToRelaunch(v)
          /\ \A v \in Workers : v # w => todo'[v] = todo[v]
          /\ \A t \in Tasks : t \in todo'[w] => t \in todo[w] \/ task[t] = "pending"
          /\ \A t \in Tasks : stale'[t] => stale[t] /\ (t \in todo[w] \/ t \notin todo'[w])
          /\ \A v \in Workers : todo'[v] \subseteq Tasks
      BY <1>1, <2>2, ClaimsPending, NextTypeOK
    <2> HIDE DEF ToRelaunch
    <2>4. \A v \in Workers, t \in Tasks :
            t \in InHand(v)' => t \in InHand(v) \/ (v = w /\ task[t] = "pending")
      BY <2>3
    <2>5. \A v, u \in Workers, t \in Tasks : t \in InHand(v)' /\ t \in InHand(u)' => v = u
      BY <2>1, <2>4
    <2>6. \A v \in Workers :
            todo'[v] \cap at'[v] = {} /\ ToRelaunch(v)' \cap (todo'[v] \cup at'[v]) = {}
      <3>1. \A v \in Workers : ToRelaunch(v) \subseteq Tasks
        BY DEF ToRelaunch
      <3>2. QED
        BY SMTT(30), <2>1, <2>3, <3>1
    <2>7. \A v \in Workers, t \in Tasks : stale'[t] /\ t \in todo'[v] \cup at'[v] => v \in Ticks
      BY <2>1, <2>3
    <2>8. QED
      BY <2>5, <2>6, <2>7
  <1>2. ASSUME NEW w \in Workers, NextClaimed(w) PROVE OneHolder'
    BY <1>2 DEF NextClaimed, HandsMatchStation
  <1>3. ASSUME NEW w \in Workers, TickStart(w) PROVE OneHolder'
    BY <1>3 DEF TickStart, HandsMatchStation, Timely
  <1>4. ASSUME NEW w \in Workers, Relaunch(w) PROVE OneHolder'
    <2>1. PICK d \in left[w] : /\ d.status = "launching" /\ at' = [at EXCEPT ![w] = {d.task}]
                              /\ left' = [left EXCEPT ![w] = @ \ {d}]
      BY <1>4 DEF Relaunch
    <2>2. PICK t \in Tasks : d = [task |-> t, status |-> "launching"] /\ d.task = t
      BY <2>1 DEF Duties
    <2>3. /\ todo' = todo /\ stale' = stale /\ at'[w] = {t} /\ w \in Ticks
          /\ ToRelaunch(w)' = ToRelaunch(w) \ {t} /\ t \in ToRelaunch(w)
          /\ \A v \in Workers : v # w => at'[v] = at[v] /\ ToRelaunch(v)' = ToRelaunch(v)
      <3>1. todo' = todo /\ stale' = stale /\ w \in Ticks
        BY <1>4 DEF Relaunch, HandsMatchStation
      <3>2. at'[w] = {t} /\ left'[w] = left[w] \ {d}
            /\ \A v \in Workers : v # w => at'[v] = at[v] /\ left'[v] = left[v]
        BY <2>1, <2>2
      <3>3. QED
        BY <2>2, <3>1, <3>2
    <2> HIDE DEF ToRelaunch
    <2>4. \A v \in Workers, u \in Tasks : u \in InHand(v)' => u \in InHand(v)
      BY <2>3
    <2>5. t \notin todo[w]
      BY <2>3
    <2>6. ASSUME NEW v \in Workers
          PROVE  todo'[v] \cap at'[v] = {} /\ ToRelaunch(v)' \cap (todo'[v] \cup at'[v]) = {}
      <3>1. CASE v = w
        BY <2>3, <2>5, <3>1
      <3>2. CASE v # w
        BY <2>3, <3>2
      <3>3. QED
        BY <3>1, <3>2
    <2>7. \A u, v \in Workers, s \in Tasks : s \in InHand(u)' /\ s \in InHand(v)' => u = v
      BY <2>4
    <2>8. \A v \in Workers, s \in Tasks : stale'[s] /\ s \in todo'[v] \cup at'[v] => v \in Ticks
      BY <2>3
    <2>9. QED
      BY <2>6, <2>7, <2>8
  <1>5. ASSUME NEW w \in Workers, Inspect(w) PROVE OneHolder'
    BY <1>5 DEF Inspect
  <1>6. ASSUME NEW w \in Workers, Mark(w) \/ Failing(w) \/ Fail(w) \/ Crash(w) PROVE OneHolder'
    <2>1. /\ todo' = todo \/ todo' = [todo EXCEPT ![w] = {}]
          /\ at' = at \/ at' = [at EXCEPT ![w] = {}]
          /\ left' = left \/ left' = [left EXCEPT ![w] = {}]
          /\ \A t \in Tasks : stale'[t] => stale[t]
      BY <1>6 DEF Mark, Failing, Fail, Crash
    <2>2. \A v \in Workers :
            todo'[v] \subseteq todo[v] /\ at'[v] \subseteq at[v] /\ left'[v] \subseteq left[v]
      BY <2>1
    <2>3. \A v \in Workers : ToRelaunch(v)' \subseteq ToRelaunch(v)
      BY <2>2
    <2> HIDE DEF ToRelaunch
    <2>4. QED
      BY <2>1, <2>2, <2>3
  <1>7. ASSUME NEW w \in Workers,
               \/ Register(w) \/ Look(w) \/ AdvanceDone(w) \/ Lookup(w) \/ Create(w) \/ Push(w)
               \/ Ensure(w) \/ Trigger(w) \/ Starting(w) \/ LaunchError(w) \/ LastAdvance(w)
        PROVE  OneHolder'
    BY <1>7 DEF Register, Look, AdvanceDone, Lookup, Create, Push, Ensure, Trigger, Starting,
                LaunchError, LastAdvance
  <1>8. ASSUME NEW t \in Tasks, GoStale(t) PROVE OneHolder'
    BY <1>8 DEF GoStale, Timely
  <1>9. ASSUME NEW t \in Tasks,
               ExecClaim(t) \/ ExecFinish(t) \/ ExecGone(t) \/ Kill(t) \/ SessionLapse(t)
        PROVE  OneHolder'
    BY <1>9 DEF ExecClaim, ExecFinish, ExecGone, Kill, SessionLapse
  <1>10. QED
    BY <1>1, <1>2, <1>3, <1>4, <1>5, <1>6, <1>7, <1>8, <1>9 DEF Next, Advance

(* A session stands once it stands.                                        *)
LEMMA SessionStands ==
  ASSUME TypeOK, Next, NEW t \in Tasks, session[t].exists
  PROVE  session'[t].exists
  <1> USE DEF TypeOK, docVars, sessionVars, workVars
  <1>1. \A u \in Tasks :
          /\ MarkStarting(session[u]).exists = session[u].exists
          /\ Claimed(session[u], 1).exists = session[u].exists
          /\ Released(session[u]).exists = session[u].exists
          /\ Killed(session[u]).exists = session[u].exists
          /\ Aged(session[u]).exists = session[u].exists
    BY DocStands
  <1>2. ASSUME NEW w \in Workers, Create(w) PROVE session'[t].exists
    BY <1>2 DEF Create, NewSession
  <1>3. ASSUME NEW w \in Workers, Starting(w) PROVE session'[t].exists
    BY <1>1, <1>3 DEF Starting
  <1>4. ASSUME NEW w \in Workers, Advance(w) \/ LaunchError(w) \/ Crash(w),
               ~Create(w), ~Starting(w)
        PROVE  UNCHANGED session
    BY <1>4
       DEF Advance, LaunchError, Crash, Register, Look, Commit, NextClaimed, AdvanceDone,
           Lookup, Push, Ensure, Trigger, Mark, Failing, Fail, TickStart, Relaunch,
           Inspect, LastAdvance
  <1>5. ASSUME NEW u \in Tasks,
               \/ ExecClaim(u) \/ ExecFinish(u) \/ ExecGone(u)
               \/ Kill(u) \/ SessionLapse(u) \/ GoStale(u)
        PROVE  session'[t].exists
    BY <1>1, <1>5 DEF ExecClaim, ExecFinish, ExecGone, Kill, SessionLapse, GoStale
  <1>6. QED
    BY <1>2, <1>3, <1>4, <1>5 DEF Next

(* Whoever starts a task created its session in this step, or did before.  *)
StartingUp(w, t) == pc[w] \in {"push", "ensure", "trigger"} /\ t \in at[w]

LEMMA StartersCreated ==
  ASSUME TypeOK, StartInv, Next, NEW w \in Workers, NEW t \in Tasks, StartingUp(w, t)'
  PROVE  \/ StartingUp(w, t)
         \/ pc[w] = "create" /\ t \in at[w] /\ ~session[t].exists /\ session'[t].exists
  <1> USE DEF TypeOK, docVars, sessionVars, workVars, Goto, StartingUp
  <1>1. ASSUME NEW v \in Workers, Create(v)
        PROVE  \/ StartingUp(w, t)
               \/ pc[w] = "create" /\ t \in at[w] /\ ~session[t].exists /\ session'[t].exists
    BY <1>1 DEF Create, StartInv, OneStarter, NewSession
  <1>2. ASSUME NEW v \in Workers, Advance(v) \/ LaunchError(v) \/ Crash(v), ~Create(v)
        PROVE  StartingUp(w, t)
    BY <1>2
       DEF Advance, LaunchError, Crash, Register, Look, Commit, NextClaimed, AdvanceDone,
           Lookup, Push, Ensure, Trigger, Starting, Mark, Failing, Fail, TickStart,
           Relaunch, Inspect, LastAdvance
  <1>3. ASSUME NEW u \in Tasks,
               \/ ExecClaim(u) \/ ExecFinish(u) \/ ExecGone(u)
               \/ Kill(u) \/ SessionLapse(u) \/ GoStale(u)
        PROVE  StartingUp(w, t)
    BY <1>3 DEF ExecClaim, ExecFinish, ExecGone, Kill, SessionLapse, GoStale, Workers
  <1>4. QED
    BY <1>1, <1>2, <1>3 DEF Next

LEMMA StartedStays ==
  ASSUME TypeOK, StartInv, Next, NEW t \in Tasks, Started(t)
  PROVE  Started(t)'
  <1>1. session'[t].exists
    BY SessionStands DEF Started
  <1>2. \A w \in Workers : ~StartingUp(w, t)'
    BY StartersCreated DEF Started, StartingUp
  <1>3. QED
    BY <1>1, <1>2 DEF Started, StartingUp

(* NothingYet, of one task.                                                *)
Untouched(t) ==
  /\ exec[t] = "none" /\ stop[t] = "none" /\ pc[t] # "look"
  /\ task[t] \notin {"running", "succeeded"}
  /\ \A w \in Workers :
       /\ t \in InHand(w) => task[t] = "launching"
       /\ pc[w] \in {"starting", "mark"} => t \notin at[w]
       /\ [task |-> t, status |-> "running"] \notin left[w]
       /\ \A o \in fin[w] : o.task # t

(* The only one who holds it is who starts it, if anybody does.            *)
LEMMA StartedWithout ==
  ASSUME OneHolder, NEW t \in Tasks, session[t].exists, NEW w \in Workers, t \in at[w],
         pc[w] \notin {"push", "ensure", "trigger"}
  PROVE  Started(t)
  BY DEF OneHolder, InHand, Started

LEMMA CommitUntouched ==
  ASSUME TypeOK, NEW w \in Workers, Commit(w), NEW t \in Tasks, Untouched(t)
  PROVE  Untouched(t)'
  <1> USE DEF TypeOK, Goto
  <1>1. /\ UNCHANGED <<exec, stop, at, left>>
        /\ \A v \in Workers : fin'[v] \subseteq fin[v]
        /\ \A v \in Workers : pc'[v] \in {pc[v], "start"}
    BY DEF Commit, sessionVars
  <1> DEFINE after == Skipped(Recorded(fin[w]))
  <1>2. task[t] # "running" /\ task[t] # "succeeded" /\ \A o \in fin[w] : o.task # t
    BY DEF Untouched
  <1>3. Recorded(fin[w])[t] = task[t]
    BY <1>2 DEF Recorded
  <1>4. \/ after[t] = task[t]
        \/ after[t] = "skipped" /\ task[t] = "pending"
    <2>1. t \in SkipCone(Recorded(fin[w])) => Recorded(fin[w])[t] = "pending"
      BY DEF SkipCone
    <2>2. after[t] = IF t \in SkipCone(Recorded(fin[w])) THEN "skipped" ELSE Recorded(fin[w])[t]
      BY DEF Skipped
    <2> HIDE DEF after
    <2>3. QED
      BY <1>3, <2>1, <2>2
  <1>5. \/ task' = task /\ todo' = todo
        \/ /\ task' = Launched(after)
           /\ todo' = [todo EXCEPT ![w] = @ \cup Ready(after)]
    BY DEF Commit
  <1>6. \/ task'[t] = task[t]
        \/ task[t] = "pending" /\ task'[t] \in {"launching", "skipped"}
    BY <1>4, <1>5 DEF Launched, Ready
  <1>7. \A v \in Workers : t \in todo'[v] => t \in todo[v] \/ task'[t] = "launching"
    BY <1>5 DEF Launched
  <1>8. ASSUME NEW v \in Workers, t \in InHand(v)' PROVE task'[t] = "launching"
    <2>1. t \in InHand(v) \/ task'[t] = "launching"
      BY <1>1, <1>7, <1>8 DEF InHand, ToRelaunch
    <2>2. t \in InHand(v) => task[t] = "launching"
      BY DEF Untouched
    <2>3. QED
      BY <1>6, <2>1, <2>2
  <1>9. pc'[t] # "look"
    BY <1>1 DEF Untouched, Workers
  <1>10. QED
    BY <1>1, <1>6, <1>8, <1>9 DEF Untouched

(* A step that takes nothing up and changes nothing of the task.           *)
LEMMA UntouchedStays ==
  ASSUME NEW t \in Tasks, Untouched(t), task'[t] = task[t], exec'[t] = exec[t], stop'[t] = stop[t],
         \A v \in Workers :
           /\ todo'[v] \subseteq todo[v] \cup at[v] \cup ToRelaunch(v)
           /\ at'[v] \subseteq todo[v] \cup at[v] \cup ToRelaunch(v)
           /\ left'[v] \subseteq left[v]
           /\ \A o \in fin'[v] : o \in fin[v] \/ o.task # t
           /\ v = t => pc'[v] # "look"
           /\ pc'[v] \in {"starting", "mark"} /\ t \in at'[v] =>
                pc[v] \in {"starting", "mark"} /\ t \in at[v]
  PROVE  Untouched(t)'
  <1>1. \A v \in Workers : t \in InHand(v)' => t \in InHand(v)
    BY DEF InHand, ToRelaunch
  <1>2. pc'[t] # "look"
    BY DEF Workers
  <1>3. QED
    BY <1>1, <1>2 DEF Untouched

LEMMA NextNothingYet ==
  ASSUME TypeOK, OrderInv, StartInv, Timely, HandsMatchStation, OneHolder, NothingYet, StopStands,
         Next
  PROVE  NothingYet'
  <1> SUFFICES ASSUME NEW t \in Tasks, ~Started(t)' PROVE Untouched(t)'
    BY DEF NothingYet, Untouched
  <1>0. ~Started(t) /\ Untouched(t)
    BY StartedStays DEF NothingYet, Untouched
  <1> USE DEF TypeOK, docVars, sessionVars, workVars, Goto
  <1>1. ASSUME NEW w \in Workers, Commit(w) PROVE Untouched(t)'
    BY <1>0, <1>1, CommitUntouched
  <1>2. ASSUME NEW w \in Workers, Register(w) \/ NextClaimed(w) \/ AdvanceDone(w) \/ Push(w)
        PROVE  Untouched(t)'
    <2>1. /\ UNCHANGED <<task, exec, stop, fin, left>>
          /\ \A v \in Workers : v # w => pc'[v] = pc[v]
          /\ pc'[w] \notin {"look", "starting", "mark"}
          /\ \A v \in Workers :
               /\ todo'[v] \subseteq todo[v] \cup at[v]
               /\ at'[v] \subseteq todo[v] \cup at[v]
               /\ v # w => at'[v] = at[v]
      BY <1>2 DEF Register, NextClaimed, AdvanceDone, Push
    <2>2. \A v \in Workers : v = t => pc'[v] # "look"
      BY <1>0, <2>1 DEF Untouched
    <2>3. QED
      BY <1>0, <2>1, <2>2, UntouchedStays
  <1>3. ASSUME NEW w \in Workers, LaunchError(w) \/ Failing(w) \/ Crash(w) \/ LastAdvance(w)
        PROVE  Untouched(t)'
    <2>1. /\ UNCHANGED <<task, exec, stop>>
          /\ \A v \in Workers : v # w => pc'[v] = pc[v]
          /\ pc'[w] \notin {"look", "starting", "mark"}
          /\ \A v \in Workers :
               /\ todo'[v] \subseteq todo[v] /\ at'[v] \subseteq at[v]
               /\ left'[v] \subseteq left[v] /\ fin'[v] \subseteq fin[v]
      BY <1>3 DEF LaunchError, Failing, Crash, LastAdvance
    <2>2. \A v \in Workers : v = t => pc'[v] # "look"
      BY <1>0, <2>1 DEF Untouched
    <2>3. QED
      BY <1>0, <2>1, <2>2, UntouchedStays
  <1>4. ASSUME NEW w \in Workers, Lookup(w) \/ Create(w) PROVE Untouched(t)'
    <2>1. t \in at[w] /\ session[t].exists => Started(t)
      BY <1>4, StartedWithout DEF Lookup, Create
    <2>2. \A u \in at[w] : u = t \/ t \notin at[w]
      BY DEF StartInv, OneStarter
    <2>3. /\ task' = task /\ exec' = exec /\ stop' = stop /\ at' = at /\ todo' = todo
          /\ left' = left /\ fin' = fin
          /\ \A v \in Workers : v # w => pc'[v] = pc[v]
          /\ pc'[w] # "look" /\ pc'[w] # "starting"
      BY <1>4 DEF Lookup, Create
    <2>4. pc'[w] = "mark" => t \notin at[w]
      <3>1. SUFFICES ASSUME t \in at[w], pc'[w] = "mark" PROVE Started(t)'
        BY <1>0
      <3>2. session'[t].exists
        BY <1>0, <1>4, <2>1, <2>2, <3>1 DEF Lookup, Create, NewSession
      <3>3. \A v \in Workers : t \in at[v] => v = w
        BY <3>1 DEF OneHolder, InHand
      <3>4. QED
        BY <2>3, <3>1, <3>2, <3>3 DEF Started
    <2>5. \A v \in Workers : v = t => pc'[v] # "look"
      BY <1>0, <2>3 DEF Untouched
    <2>6. QED
      BY <1>0, <2>3, <2>4, <2>5, UntouchedStays
  <1>5. ASSUME NEW w \in Workers, Ensure(w) \/ Trigger(w) PROVE Untouched(t)'
    <2>1. /\ task' = task /\ stop' = stop /\ at' = at /\ todo' = todo /\ left' = left /\ fin' = fin
          /\ session' = session
          /\ \A v \in Workers : v # w => pc'[v] = pc[v]
          /\ pc[w] \in {"ensure", "trigger"} /\ pc'[w] \in {"mark", "trigger", "starting"}
      BY <1>5 DEF Ensure, Trigger
    <2>2. t \in at[w] => pc'[w] = "trigger"
      <3>1. SUFFICES ASSUME t \in at[w], pc'[w] # "trigger" PROVE Started(t)'
        BY <1>0
      <3>2. session[t].exists
        BY <2>1, <3>1 DEF StopStands
      <3>3. \A v \in Workers : t \in at[v] => v = w
        BY <3>1 DEF OneHolder, InHand
      <3>4. QED
        BY <2>1, <3>1, <3>2, <3>3 DEF Started
    <2>3. exec'[t] = exec[t]
      BY <1>5, <2>2 DEF Ensure, Trigger
    <2>4. \A v \in Workers : v = t => pc'[v] # "look"
      BY <1>0, <2>1 DEF Untouched
    <2>5. QED
      BY <1>0, <2>1, <2>2, <2>3, <2>4, UntouchedStays
  <1>6. ASSUME NEW w \in Workers, Starting(w) \/ Mark(w) PROVE Untouched(t)'
    <2>1. t \notin at[w]
      BY <1>0, <1>6 DEF Starting, Mark, Untouched
    <2>2. task'[t] = task[t]
      BY <1>6, <2>1 DEF Starting, Mark
    <2>3. /\ UNCHANGED <<exec, stop, todo, left, fin>>
          /\ \A v \in Workers : v # w => pc'[v] = pc[v]
          /\ pc'[w] # "look" /\ pc'[w] # "starting"
          /\ \A v \in Workers : at'[v] \subseteq at[v]
      BY <1>6 DEF Starting, Mark
    <2>4. \A v \in Workers : v = t => pc'[v] # "look"
      BY <1>0, <2>3 DEF Untouched
    <2>5. t \notin at'[w]
      BY <2>1, <2>3
    <2>6. QED
      BY <1>0, <2>2, <2>3, <2>4, <2>5, UntouchedStays
  <1>7. ASSUME NEW w \in Workers, Fail(w) PROVE Untouched(t)'
    <2>1. CASE t \notin at[w]
      <3>1. /\ UNCHANGED <<exec, stop, todo, left, fin>>
            /\ \A v \in Workers : v # w => pc'[v] = pc[v]
            /\ pc'[w] \notin {"look", "starting", "mark"}
            /\ \A v \in Workers : at'[v] \subseteq at[v]
        BY <1>7 DEF Fail
      <3>2. task'[t] = task[t]
        BY <1>7, <2>1 DEF Fail
      <3>3. \A v \in Workers : v = t => pc'[v] # "look"
        BY <1>0, <3>1 DEF Untouched
      <3>4. QED
        BY <1>0, <3>1, <3>2, <3>3, UntouchedStays
    <2>2. CASE t \in at[w]
      <3>1. \A v \in Workers : t \notin InHand(v)'
        BY <1>7, <2>2 DEF Fail, OneHolder, InHand, ToRelaunch
      <3>2. task'[t] \in {"failed", task[t]} /\ pc'[t] # "look"
        BY <1>0, <1>7 DEF Fail, Untouched, Workers
      <3>3. \A v \in Workers : t \notin at'[v]
        BY <3>1 DEF InHand
      <3>4. QED
        BY <1>0, <1>7, <3>1, <3>2, <3>3 DEF Fail, Untouched
    <2>3. QED
      BY <2>1, <2>2
  <1>8. ASSUME NEW w \in Workers, Look(w) PROVE Untouched(t)'
    <2>1. w # t
      BY <1>0, <1>8 DEF Look, Untouched
    <2>2. /\ UNCHANGED <<task, exec, stop, todo, at, left>>
          /\ \A v \in Workers : v # w => pc'[v] = pc[v] /\ fin'[v] = fin[v]
          /\ pc'[w] = "commit" /\ fin'[w] = {OutcomeOf(w)} /\ OutcomeOf(w).task = w
      BY <1>8 DEF Look, OutcomeOf
    <2>3. \A v \in Workers : \A o \in fin'[v] : o \in fin[v] \/ o.task # t
      BY <2>1, <2>2
    <2>4. \A v \in Workers : v = t => pc'[v] # "look"
      BY <1>0, <2>2 DEF Untouched
    <2>5. QED
      BY <1>0, <2>2, <2>3, <2>4, UntouchedStays
  <1>9. ASSUME NEW w \in Workers, TickStart(w) PROVE Untouched(t)'
    <2>1. /\ UNCHANGED <<task, exec, stop, todo, at, fin>>
          /\ \A d \in left'[w] : d \in Duties /\ task[d.task] = d.status
          /\ \A v \in Workers : v # w => left'[v] = left[v]
          /\ \A v \in Workers : v # w => pc'[v] = pc[v]
          /\ pc'[w] = "sweep"
      BY <1>9 DEF TickStart
    <2>2. \A v \in Workers : t \in InHand(v)' => task[t] = "launching"
      <3>1. t \in ToRelaunch(w)' => task[t] = "launching"
        BY <2>1 DEF ToRelaunch
      <3>2. \A v \in Workers : t \in InHand(v)' => t \in InHand(v) \/ (v = w /\ t \in ToRelaunch(v)')
        BY <2>1 DEF InHand, ToRelaunch
      <3>3. QED
        BY <1>0, <3>1, <3>2 DEF Untouched
    <2>3. \A v \in Workers : [task |-> t, status |-> "running"] \notin left'[v]
      BY <1>0, <2>1 DEF Untouched
    <2>4. pc'[t] # "look" /\ \A v \in Workers : pc'[v] \in {"starting", "mark"} => pc[v] = pc'[v]
      BY <1>0, <2>1 DEF Untouched, Workers
    <2>5. QED
      BY <1>0, <2>1, <2>2, <2>3, <2>4 DEF Untouched
  <1>10. ASSUME NEW w \in Workers, Relaunch(w) PROVE Untouched(t)'
    <2>1. PICK d \in left[w] : /\ d.status = "launching" /\ at' = [at EXCEPT ![w] = {d.task}]
                               /\ left' = [left EXCEPT ![w] = @ \ {d}]
      BY <1>10 DEF Relaunch
    <2>2. d.task \in ToRelaunch(w)
      BY <2>1 DEF Duties, ToRelaunch
    <2>3. UNCHANGED <<task, exec, stop, todo, fin>> /\ pc' = [pc EXCEPT ![w] = "lookup"]
      BY <1>10 DEF Relaunch
    <2>4. QED
      BY <1>0, <2>1, <2>2, <2>3, UntouchedStays DEF Untouched
  <1>11. ASSUME NEW w \in Workers, Inspect(w) PROVE Untouched(t)'
    <2>1. PICK d \in left[w] :
            /\ d.status = "running" /\ left' = [left EXCEPT ![w] = @ \ {d}]
            /\ \/ pc' = pc /\ fin' = fin
               \/ fin' = [fin EXCEPT ![w] = {Derived(d.task)}] /\ pc' = [pc EXCEPT ![w] = "commit"]
      BY <1>11 DEF Inspect
    <2>2. d.task # t
      BY <1>0, <2>1 DEF Untouched, Duties
    <2>3. Derived(d.task).task = d.task
      BY DEF Derived, OutcomeOf
    <2>4. UNCHANGED <<task, exec, stop, todo, at>>
      BY <1>11 DEF Inspect
    <2>5. QED
      BY <1>0, <2>1, <2>2, <2>3, <2>4, UntouchedStays DEF Untouched
  <1>12. ASSUME NEW u \in Tasks,
                \/ ExecClaim(u) \/ ExecFinish(u) \/ ExecGone(u)
                \/ Kill(u) \/ SessionLapse(u) \/ GoStale(u)
         PROVE  Untouched(t)'
    <2>1. exec[t] = "none"
      BY <1>0 DEF Untouched
    <2>2. /\ UNCHANGED <<task, todo, at, fin, left>> /\ exec'[t] = exec[t] /\ stop'[t] = stop[t]
          /\ \A v \in Workers : pc'[v] = pc[v] \/ (v # t /\ pc'[v] = "look")
      BY <1>12, <2>1 DEF ExecClaim, ExecFinish, ExecGone, Kill, SessionLapse, GoStale, Workers
    <2>3. QED
      BY <1>0, <2>2, UntouchedStays DEF Untouched
  <1>13. QED
    BY <1>1, <1>2, <1>3, <1>4, <1>5, <1>6, <1>7, <1>8, <1>9, <1>10, <1>11, <1>12
       DEF Next, Advance

(* How one step moves the session of a task, its execution and its stop    *)
(* reason.                                                                 *)
SessionMove(t) ==
  \/ session'[t] = session[t] /\ exec'[t] \in {exec[t], "none"} /\ stop'[t] = stop[t]
  \/ /\ exec'[t] = exec[t] /\ stop'[t] = stop[t]
     /\ \/ \E w \in Workers : /\ pc[w] = "create" /\ t \in at[w]
                              /\ ~session[t].exists /\ session'[t] = NewSession
        \/ \E w \in Workers : /\ pc[w] = "starting" /\ t \in at[w]
                              /\ session'[t] = MarkStarting(session[t])
        \/ session'[t] = Killed(session[t])
        \/ exec[t] # "running" /\ session'[t] = Aged(session[t])
  \/ /\ session'[t] = session[t] /\ stop'[t] = stop[t] /\ exec'[t] = "booting"
     /\ \E w \in Workers : pc[w] = "trigger" /\ t \in at[w]
  \/ /\ exec[t] = "booting" /\ exec'[t] = "running" /\ stop'[t] = stop[t]
     /\ CanClaim(session[t], 1) /\ session'[t] = Claimed(session[t], 1)
  \/ /\ exec[t] = "running" /\ exec'[t] = "none" /\ session'[t] = Released(session[t])
     /\ \A w \in Workers : pc[w] = "starting" => t \notin at[w]

LEMMA SessionMoves ==
  ASSUME TypeOK, Timely, Next, NEW t \in Tasks
  PROVE  /\ SessionMove(t)
         /\ pc'[t] = "look" => pc[t] = "look" \/ (exec[t] = "running" /\ exec'[t] = "none")
  <1> DEFINE Looks == pc'[t] = "look" => pc[t] = "look" \/ (exec[t] = "running" /\ exec'[t] = "none")
  <1> USE DEF TypeOK, docVars, sessionVars, workVars, Goto
  <1>a. t \in Workers
    BY DEF Workers
  <1>1. ASSUME NEW w \in Workers,
               \/ Register(w) \/ Look(w) \/ Commit(w) \/ NextClaimed(w) \/ AdvanceDone(w)
               \/ Lookup(w) \/ Push(w) \/ Ensure(w) \/ Mark(w) \/ Failing(w) \/ Fail(w)
               \/ TickStart(w) \/ Relaunch(w) \/ Inspect(w) \/ LastAdvance(w)
               \/ LaunchError(w) \/ Crash(w)
        PROVE  SessionMove(t) /\ Looks
    <2>1. UNCHANGED <<session, exec, stop>>
      BY <1>1 DEF Register, Look, Commit, NextClaimed, AdvanceDone, Lookup, Push, Ensure, Mark,
                  Failing, Fail, TickStart, Relaunch, Inspect, LastAdvance, LaunchError, Crash
    <2>2. Looks
      BY <1>1, <1>a
         DEF Register, Look, Commit, NextClaimed, AdvanceDone, Lookup, Push, Ensure,
             Mark, Failing, Fail, TickStart, Relaunch, Inspect, LastAdvance,
             LaunchError, Crash
    <2>3. QED
      BY <2>1, <2>2 DEF SessionMove
  <1>2. ASSUME NEW w \in Workers, Create(w) \/ Trigger(w) \/ Starting(w)
        PROVE  SessionMove(t) /\ Looks
    <2>1. Looks
      BY <1>2, <1>a DEF Create, Trigger, Starting
    <2>2. SessionMove(t)
      BY <1>2 DEF Create, Trigger, Starting, SessionMove
    <2>3. QED
      BY <2>1, <2>2
  <1>3. ASSUME NEW u \in Tasks, ExecClaim(u) \/ ExecFinish(u) \/ ExecGone(u)
        PROVE  SessionMove(t) /\ Looks
    <2>1. Looks
      BY <1>3, <1>a DEF ExecClaim, ExecFinish, ExecGone, Workers
    <2>2. SessionMove(t)
      BY <1>3 DEF ExecClaim, ExecFinish, ExecGone, SessionMove, Timely
    <2>3. QED
      BY <2>1, <2>2
  <1>4. ASSUME NEW u \in Tasks, Kill(u) \/ SessionLapse(u) \/ GoStale(u)
        PROVE  SessionMove(t) /\ Looks
    BY <1>4 DEF Kill, SessionLapse, GoStale, SessionMove
  <1>5. QED
    BY <1>1, <1>2, <1>3, <1>4 DEF Next, Advance

(* Nothing that happens to a session brings a dead one back.               *)
LEMMA DocFacts ==
  ASSUME NEW s \in SessionDocs
  PROVE  /\ MarkStarting(s).lease_left = s.lease_left /\ MarkStarting(s).disabled = s.disabled
         /\ IsDead(s) => IsDead(MarkStarting(s))
         /\ Killed(s).lease_left = s.lease_left /\ Killed(s).disabled /\ IsDead(Killed(s))
         /\ Aged(s).disabled = s.disabled /\ Aged(s).status = s.status
         /\ IsDead(s) => IsDead(Aged(s))
         /\ Claimed(s, 1).lease_left = LeaseTTL /\ LeaseTTL > 0
         /\ Released(s).status = "idle"
  BY DurationAssumption DEF SessionDocs, MarkStarting, Killed, Aged, Claimed, Released, IsDead

(* Where the stations of a launch are entered from.                        *)
LEMMA StartsFromTrigger ==
  ASSUME TypeOK, Next, NEW w \in Workers, pc'[w] = "starting", NEW t \in at'[w]
  PROVE  /\ t \in at[w] /\ pc[w] \in {"trigger", "starting"}
         /\ pc[w] = "trigger" => Trigger(w)
  <1> USE DEF TypeOK, docVars, sessionVars, workVars, Goto
  <1>1. ASSUME NEW v \in Workers, Trigger(v)
        PROVE  t \in at[w] /\ (v = w \/ pc[w] = "starting")
    BY <1>1 DEF Trigger
  <1>2. ASSUME NEW v \in Workers, Advance(v) \/ LaunchError(v) \/ Crash(v), ~Trigger(v)
        PROVE  t \in at[w] /\ pc[w] = "starting"
    BY <1>2
       DEF Advance, LaunchError, Crash, Register, Look, Commit, NextClaimed, AdvanceDone,
           Lookup, Create, Push, Ensure, Starting, Mark, Failing, Fail, TickStart,
           Relaunch, Inspect, LastAdvance
  <1>3. ASSUME NEW u \in Tasks,
               \/ ExecClaim(u) \/ ExecFinish(u) \/ ExecGone(u)
               \/ Kill(u) \/ SessionLapse(u) \/ GoStale(u)
        PROVE  t \in at[w] /\ pc[w] = "starting"
    BY <1>3 DEF ExecClaim, ExecFinish, ExecGone, Kill, SessionLapse, GoStale, Workers
  <1>4. (\E v \in Workers : Trigger(v)) \/ (t \in at[w] /\ pc[w] = "starting")
    BY <1>2, <1>3 DEF Next
  <1>5. QED
    <2>1. CASE \E v \in Workers : Trigger(v)
      <3>1. PICK v \in Workers : Trigger(v)
        BY <2>1
      <3>2. t \in at[w] /\ (v = w \/ pc[w] = "starting")
        BY <1>1, <3>1
      <3>3. CASE v = w
        <4>1. pc[w] = "trigger"
          BY <3>1, <3>3 DEF Trigger
        <4>2. QED
          BY <3>1, <3>2, <3>3, <4>1
      <3>4. QED
        BY <3>2, <3>3
    <2>2. QED
      BY <1>4, <2>1

LEMMA FailsWithout ==
  ASSUME TypeOK, StartInv, Timely, StopStands, Next,
         NEW w \in Workers, pc'[w] = "fail", NEW t \in at'[w]
  PROVE  t \in at[w] /\ pc[w] \in {"failing", "fail"} /\ ~session[t].exists
  <1> USE DEF TypeOK, docVars, sessionVars, workVars, Goto
  <1>1. ASSUME NEW v \in Workers, Failing(v)
        PROVE  /\ t \in at[w] /\ pc[w] \in {"failing", "fail"}
               /\ pc[w] = "failing" => ~session[t].exists
    BY <1>1 DEF Failing, Timely, StartInv, OneStarter
  <1>2. ASSUME NEW v \in Workers, Advance(v) \/ LaunchError(v) \/ Crash(v), ~Failing(v)
        PROVE  t \in at[w] /\ pc[w] = "fail"
    BY <1>2
       DEF Advance, LaunchError, Crash, Register, Look, Commit, NextClaimed, AdvanceDone,
           Lookup, Create, Push, Ensure, Trigger, Starting, Mark, Fail, TickStart,
           Relaunch, Inspect, LastAdvance
  <1>3. ASSUME NEW u \in Tasks,
               \/ ExecClaim(u) \/ ExecFinish(u) \/ ExecGone(u)
               \/ Kill(u) \/ SessionLapse(u) \/ GoStale(u)
        PROVE  t \in at[w] /\ pc[w] = "fail"
    BY <1>3 DEF ExecClaim, ExecFinish, ExecGone, Kill, SessionLapse, GoStale, Workers
  <1>4. /\ t \in at[w] /\ pc[w] \in {"failing", "fail"}
        /\ pc[w] = "failing" => ~session[t].exists
    BY <1>1, <1>2, <1>3 DEF Next
  <1>5. QED
    BY <1>4 DEF StopStands

LEMMA NextStopStands ==
  ASSUME TypeOK, StartInv, Timely, HandsMatchStation, OneHolder, NothingYet, StopStands, Next
  PROVE  StopStands'
  <1> USE DEF TypeOK
  <1>a. \A t \in Tasks : session[t] \in SessionDocs
    OBVIOUS
  <1>b. ASSUME NEW w \in Workers, NEW t \in at[w], pc[w] \in {"create", "push", "ensure", "trigger"},
               pc[w] = "create" => ~session[t].exists
        PROVE  stop[t] = "none" /\ pc[t] # "look"
    BY <1>b DEF NothingYet, Started
  <1>1. ASSUME NEW t \in Tasks, exec'[t] = "running" PROVE LeaseActive(session'[t])
    <2>1. SessionMove(t)
      BY SessionMoves
    <2>2. exec[t] = "running" => session[t].exists /\ session[t].lease_left > 0
      BY DEF StopStands, LeaseActive
    <2>3. session'[t].exists /\ session'[t].lease_left > 0
      BY <1>a, <1>1, <2>1, <2>2, DocFacts, DocStands
         DEF SessionMove, CanClaim, IsDead
    <2>4. QED
      BY <2>3 DEF LeaseActive
  <1>2. ASSUME NEW t \in Tasks, pc'[t] = "look" \/ stop'[t] # "none" PROVE exec'[t] = "none"
    <2>1. /\ SessionMove(t)
          /\ pc'[t] = "look" => pc[t] = "look" \/ (exec[t] = "running" /\ exec'[t] = "none")
      BY SessionMoves
    <2>2. pc[t] = "look" \/ stop[t] # "none" => exec[t] = "none"
      BY DEF StopStands
    <2>3. \A w \in Workers : pc[w] = "trigger" /\ t \in at[w] => stop[t] = "none" /\ pc[t] # "look"
      BY <1>b
    <2>4. QED
      BY <1>2, <2>1, <2>2, <2>3 DEF SessionMove
  <1>3. ASSUME NEW t \in Tasks, stop'[t] = "end_turn"
        PROVE  session'[t].status = "idle" \/ session'[t].disabled
    <2>1. SessionMove(t)
      BY SessionMoves
    <2>2. stop[t] = "end_turn" => exec[t] = "none" /\ (session[t].status = "idle" \/ session[t].disabled)
      BY DEF StopStands
    <2>3. \A w \in Workers : pc[w] = "create" /\ t \in at[w] /\ ~session[t].exists => stop[t] = "none"
      BY <1>b
    <2>4. \A w \in Workers : pc[w] = "starting" /\ t \in at[w] => stop[t] = "none"
      BY DEF StopStands
    <2>5. QED
      BY <1>a, <1>3, <2>1, <2>2, <2>3, <2>4, DocFacts DEF SessionMove
  <1>4. ASSUME NEW w \in Workers, NEW t \in at'[w], pc'[w] \in {"push", "ensure", "trigger"}
        PROVE  session'[t].exists
    <2>1. t \in Tasks
      BY NextTypeOK
    <2>2. StartingUp(w, t)'
      BY <1>4 DEF StartingUp
    <2>3. StartingUp(w, t) \/ session'[t].exists
      BY <2>1, <2>2, StartersCreated
    <2>4. StartingUp(w, t) => session[t].exists
      BY DEF StartingUp, StopStands
    <2>5. QED
      BY <2>1, <2>3, <2>4, SessionStands
  <1>5. ASSUME NEW w \in Workers, NEW t \in at'[w], pc'[w] = "starting"
        PROVE  stop'[t] = "none"
    <2>1. t \in Tasks
      BY NextTypeOK
    <2>2. t \in at[w] /\ pc[w] \in {"trigger", "starting"}
      BY <1>5, StartsFromTrigger
    <2>3. stop[t] = "none"
      BY <2>2, <1>b DEF StopStands
    <2>4. SessionMove(t)
      BY <2>1, SessionMoves
    <2>5. CASE pc[w] = "starting"
      BY <2>2, <2>3, <2>4, <2>5 DEF SessionMove
    <2>6. CASE pc[w] = "trigger"
      <3>1. Trigger(w)
        BY <1>5, <2>6, StartsFromTrigger
      <3>2. QED
        BY <2>3, <3>1 DEF Trigger
    <2>7. QED
      BY <2>2, <2>5, <2>6
  <1>6. ASSUME NEW w \in Workers, NEW t \in at'[w], pc'[w] = "fail"
        PROVE  ~session'[t].exists
    <2>1. t \in Tasks
      BY NextTypeOK
    <2>2. t \in at[w] /\ pc[w] \in {"failing", "fail"} /\ ~session[t].exists
      BY <1>6, FailsWithout
    <2>3. \A v \in Workers : t \in at[v] => v = w
      BY <2>1, <2>2 DEF OneHolder, InHand
    <2>4. SessionMove(t)
      BY <2>1, SessionMoves
    <2>5. session'[t].exists = session[t].exists
      BY <1>a, <2>1, <2>2, <2>3, <2>4, DocStands DEF SessionMove
    <2>6. QED
      BY <2>2, <2>5
  <1>7. QED
    BY <1>1, <1>2, <1>3, <1>4, <1>5, <1>6 DEF StopStands

LEMMA LostStays ==
  ASSUME TypeOK, Timely, NothingYet, Next, NEW t \in Tasks, Lost(t),
         \/ task[t] = "failed"
         \/ \E w \in Workers : [task |-> t, status |-> "failed"] \in fin[w]
  PROVE  Lost(t)'
  <1>1. Started(t) \/ \A w \in Workers : t \notin at[w]
    BY DEF NothingYet, InHand
  <1>2. ASSUME NEW w \in Workers, t \in at[w], pc[w] \in {"create", "trigger"}
        PROVE  pc[w] = "create" /\ session[t].exists
    BY <1>1, <1>2 DEF Started
  <1>3. SessionMove(t)
    BY SessionMoves
  <1>4. session[t] \in SessionDocs
    BY DEF TypeOK
  <1>5. IsDead(session[t]) => ~CanClaim(session[t], 1)
    BY DEF CanClaim
  <1>6. /\ exec'[t] # "running"
        /\ exec'[t] = "booting" => exec[t] = "booting"
        /\ IsDead(session[t]) => IsDead(session'[t])
        /\ stop'[t] = stop[t]
        /\ session[t].disabled => session'[t].disabled
    BY <1>2, <1>3, <1>4, <1>5, DocFacts DEF SessionMove, Lost
  <1>7. QED
    BY <1>6 DEF Lost

(* Whatever is newly written off, or about to be, is lost.                 *)
LEMMA FailLost ==
  ASSUME TypeOK, NothingYet, StopStands, NEW w \in Workers, Fail(w), NEW t \in at[w]
  PROVE  Lost(t)
  <1>1. ~session[t].exists
    BY DEF Fail, StopStands
  <1>2. QED
    BY <1>1 DEF NothingYet, Started, Lost, TypeOK

LEMMA LookLost ==
  ASSUME TypeOK, StopStands, NEW t \in Tasks, Look(t), OutcomeOf(t).status = "failed"
  PROVE  Lost(t)
  <1>1. exec[t] = "none"
    BY DEF Look, StopStands
  <1>2. session[t].status = "idle" => stop[t] # "end_turn"
    BY DEF OutcomeOf
  <1>3. QED
    BY <1>1, <1>2 DEF StopStands, Lost

LEMMA InspectLost ==
  ASSUME TypeOK, Timely, NothingYet, StopStands, NEW t \in Tasks,
         OnItsWay(t) => StartPending(session[t]),
         ~StillUp(session[t]), Derived(t).status = "failed"
  PROVE  Lost(t)
  <1>1. ~LeaseActive(session[t]) /\ ~OnItsWay(t)
    BY DEF StillUp
  <1>2. exec[t] # "running" /\ (exec[t] = "booting" => IsDead(session[t]))
    BY <1>1 DEF StopStands, OnItsWay, Timely
  <1>3. session[t].exists /\ session[t].status = "idle" => stop[t] # "end_turn"
    BY DEF Derived, OutcomeOf
  <1>4. ~session[t].exists => stop[t] = "none"
    BY DEF NothingYet, Started
  <1>5. QED
    BY <1>2, <1>3, <1>4 DEF StopStands, Lost

(* WrittenOff: recorded as failed, or about to be.                         *)
WrittenOff(t) ==
  task[t] = "failed" \/ \E w \in Workers : [task |-> t, status |-> "failed"] \in fin[w]

LEMMA NewlyWrittenOff ==
  ASSUME TypeOK, Timely, NothingYet, StopStands, Next, NEW t \in Tasks, WrittenOff(t)'
  PROVE  WrittenOff(t) \/ (Lost(t) /\ UNCHANGED <<session, exec, stop>>)
  <1> USE DEF TypeOK, docVars, sessionVars, workVars, Goto
  <1>1. ASSUME NEW w \in Workers, Commit(w) PROVE WrittenOff(t)
    <2>1. \A v \in Workers : fin'[v] \subseteq fin[v]
      BY <1>1 DEF Commit
    <2>2. Recorded(fin[w])[t] = "failed" => WrittenOff(t)
      BY DEF Recorded, WrittenOff
    <2>3. Skipped(Recorded(fin[w]))[t] = "failed" => Recorded(fin[w])[t] = "failed"
      BY DEF Skipped
    <2>4. task'[t] = "failed" => task[t] = "failed" \/ Skipped(Recorded(fin[w]))[t] = "failed"
      BY <1>1 DEF Commit, Launched
    <2>5. QED
      BY <2>1, <2>2, <2>3, <2>4 DEF WrittenOff
  <1>2. ASSUME NEW w \in Workers, Fail(w)
        PROVE  WrittenOff(t) \/ (Lost(t) /\ UNCHANGED <<session, exec, stop>>)
    <2>0. UNCHANGED <<session, exec, stop>>
      BY <1>2 DEF Fail
    <2>1. fin' = fin /\ (task'[t] = task[t] \/ t \in at[w])
      BY <1>2 DEF Fail
    <2>2. QED
      BY <1>2, <2>1, <2>0, FailLost DEF WrittenOff
  <1>3. ASSUME NEW w \in Workers, Look(w)
        PROVE  WrittenOff(t) \/ (Lost(t) /\ UNCHANGED <<session, exec, stop>>)
    <2>1. /\ task' = task /\ w \in Tasks
          /\ \A v \in Workers : v # w => fin'[v] = fin[v]
          /\ fin'[w] = {OutcomeOf(w)} /\ OutcomeOf(w).task = w
      BY <1>3 DEF Look, OutcomeOf
    <2>2. CASE OutcomeOf(w) = [task |-> t, status |-> "failed"]
      <3>1. w = t /\ OutcomeOf(t).status = "failed"
        BY <2>1, <2>2
      <3>2. UNCHANGED <<session, exec, stop>>
        BY <1>3 DEF Look
      <3>3. QED
        BY <1>3, <3>1, <3>2, LookLost
    <2>3. CASE OutcomeOf(w) # [task |-> t, status |-> "failed"]
      BY <2>1, <2>3 DEF WrittenOff
    <2>4. QED
      BY <2>2, <2>3
  <1>4. ASSUME NEW w \in Workers, Inspect(w)
        PROVE  WrittenOff(t) \/ (Lost(t) /\ UNCHANGED <<session, exec, stop>>)
    <2>1. PICK d \in left[w] :
            /\ d.status = "running"
            /\ OnItsWay(d.task) => StartPending(session[d.task])
            /\ \/ fin' = fin
               \/ ~StillUp(session[d.task]) /\ fin' = [fin EXCEPT ![w] = {Derived(d.task)}]
      BY <1>4 DEF Inspect
    <2>2. task' = task /\ d.task \in Tasks
      BY <1>4 DEF Inspect, Duties
    <2>3. Derived(d.task).task = d.task
      BY DEF Derived, OutcomeOf
    <2>4. CASE /\ Derived(d.task) = [task |-> t, status |-> "failed"]
               /\ ~StillUp(session[d.task])
      <3>1. d.task = t /\ Derived(t).status = "failed"
        BY <2>3, <2>4
      <3>2. UNCHANGED <<session, exec, stop>>
        BY <1>4 DEF Inspect
      <3>3. QED
        BY <2>1, <2>4, <3>1, <3>2, InspectLost
    <2>5. CASE \/ fin' = fin
               \/ /\ fin' = [fin EXCEPT ![w] = {Derived(d.task)}]
                  /\ Derived(d.task) # [task |-> t, status |-> "failed"]
      BY <2>2, <2>5 DEF WrittenOff
    <2>6. QED
      BY <2>1, <2>4, <2>5
  <1>5. ASSUME NEW w \in Workers, Advance(w) \/ LaunchError(w) \/ Crash(w),
               ~Commit(w), ~Fail(w), ~Look(w), ~Inspect(w)
        PROVE  WrittenOff(t)
    <2>1. /\ \A v \in Workers : fin'[v] \subseteq fin[v]
          /\ task'[t] = "failed" => task[t] = "failed"
      BY <1>5 DEF Advance, LaunchError, Crash, Register, NextClaimed, AdvanceDone, Lookup, Create,
                  Push, Ensure, Trigger, Starting, Mark, Failing, TickStart, Relaunch, LastAdvance
    <2>2. QED
      BY <2>1 DEF WrittenOff
  <1>6. ASSUME NEW u \in Tasks,
               \/ ExecClaim(u) \/ ExecFinish(u) \/ ExecGone(u)
               \/ Kill(u) \/ SessionLapse(u) \/ GoStale(u)
        PROVE  WrittenOff(t)
    <2>1. UNCHANGED <<task, fin>>
      BY <1>6 DEF ExecClaim, ExecFinish, ExecGone, Kill, SessionLapse, GoStale
    <2>2. QED
      BY <2>1 DEF WrittenOff
  <1> HIDE DEF TypeOK, docVars, sessionVars, workVars, Goto
  <1>7. QED
    BY <1>1, <1>2, <1>3, <1>4, <1>5, <1>6 DEF Next

LEMMA NextFailedIsLost ==
  ASSUME TypeOK, StartInv, Timely, OneHolder, NothingYet, StopStands, FailedIsLost, Next
  PROVE  FailedIsLost'
  <1>1. SUFFICES ASSUME NEW t \in Tasks, WrittenOff(t)' PROVE Lost(t)'
    BY DEF FailedIsLost, WrittenOff
  <1>2. CASE WrittenOff(t)
    <2>1. Lost(t)
      BY <1>2 DEF FailedIsLost, WrittenOff
    <2>2. QED
      BY <1>2, <2>1, LostStays DEF WrittenOff
  <1>3. CASE ~WrittenOff(t)
    <2>1. Lost(t) /\ UNCHANGED <<session, exec, stop>>
      BY <1>1, <1>3, NewlyWrittenOff
    <2>2. QED
      BY <2>1 DEF Lost
  <1>4. QED
    BY <1>2, <1>3

LEMMA InitTimelyInv == Init => TimelyInv
  <1> SUFFICES ASSUME Init PROVE TimelyInv
    OBVIOUS
  <1>1. /\ \A w \in Workers : /\ todo[w] = {} /\ at[w] = {} /\ left[w] = {} /\ fin[w] = {}
                              /\ pc[w] \in {"register", "off"}
        /\ \A t \in Tasks : /\ exec[t] = "none" /\ stop[t] = "none" /\ task[t] = "pending"
                            /\ pc[t] = "off"
    BY WorkerAssumption DEF Init, Workers
  <1>2. \A w \in Workers : InHand(w) = {} /\ ToRelaunch(w) = {}
    BY <1>1 DEF InHand, ToRelaunch
  <1>3. HandsMatchStation /\ OneHolder
    BY <1>1, <1>2 DEF HandsMatchStation, OneHolder
  <1>4. NothingYet
    BY <1>1, <1>2 DEF NothingYet
  <1>5. StopStands /\ FailedIsLost
    BY <1>1 DEF StopStands, FailedIsLost
  <1>6. QED
    BY <1>3, <1>4, <1>5 DEF TimelyInv

LEMMA NextTimelyInv ==
  ASSUME Timely
  PROVE  TypeOK /\ OrderInv /\ StartInv /\ TimelyInv /\ [Next]_vars => TimelyInv'
  <1> SUFFICES ASSUME TypeOK, OrderInv, StartInv, TimelyInv, [Next]_vars PROVE TimelyInv'
    OBVIOUS
  <1>1. CASE Next
    BY <1>1, NextHandsMatch, NextOneHolder, NextNothingYet, NextStopStands, NextFailedIsLost
       DEF TimelyInv
  <1>2. CASE UNCHANGED vars
    BY <1>2
       DEF vars, TimelyInv, HandsMatchStation, OneHolder, ToRelaunch, InHand, NothingYet,
           Started, StopStands, FailedIsLost, Lost, LeaseActive, IsDead
  <1>3. QED
    BY <1>1, <1>2

LEMMA TimelyHolds == ASSUME Timely PROVE Spec => []TimelyInv
  <1>1. QED
    BY InitTimelyInv, NextTimelyInv, TypeCorrect, OrderHolds, StartHolds, PTL DEF Spec

(* While nobody outlives a window meant for it and one tick is through     *)
(* before the next begins, no task is written off with an execution at     *)
(* work on it or about to be, whoever launches, dies or is killed.         *)
THEOREM WrittenOffIsIdle == ASSUME Timely PROVE Spec => []NoWorkOnFailed
  <1>1. TypeOK /\ OrderInv /\ TimelyInv => NoWorkOnFailed
    <2> SUFFICES ASSUME TypeOK, OrderInv, TimelyInv, NEW t \in Tasks,
                        task[t] \in {"failed", "skipped"}
                 PROVE  exec[t] # "running" /\ (exec[t] = "booting" => IsDead(session[t]))
      BY DEF NoWorkOnFailed
    <2>1. CASE task[t] = "failed"
      BY <2>1 DEF TimelyInv, FailedIsLost, Lost
    <2>2. CASE task[t] = "skipped"
      BY <2>2 DEF OrderInv, LiveHasBegun, Begun
    <2>3. QED
      BY <2>1, <2>2
  <1>2. QED
    BY <1>1, TypeCorrect, OrderHolds, TimelyHolds, PTL

(* Under the same assumption a task whose session ended its turn, and was  *)
(* not killed, is never recorded as failed, whoever records it.            *)
THEOREM SuccessStands == ASSUME Timely PROVE Spec => []SuccessIsRecorded
  <1>1. TimelyInv => SuccessIsRecorded
    BY DEF TimelyInv, FailedIsLost, Lost, SuccessIsRecorded
  <1>2. QED
    BY <1>1, TimelyHolds, PTL
=============================================================================
