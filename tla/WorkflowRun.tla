------------------------------ MODULE WorkflowRun ------------------------------
(***************************************************************************)
(* One run of a workflow (src/src/syros/workflows.py): the launcher that   *)
(* fires it, the runners that advance it when a task's session releases,   *)
(* and the ticks of the scheduler that repair it, all through transactions *)
(* on the one run document, and every one of them able to die between any  *)
(* two calls.  The session of a task is the document of SessionDoc; its    *)
(* executions are SessionRun's, seen from outside: one claims, and later   *)
(* it releases with a stop reason or is gone.                              *)
(*                                                                         *)
(* Ages are what the readers test: a launch is "stale" once START_GRACE    *)
(* has passed, a lease or a grace window of a session lapses.              *)
(***************************************************************************)
EXTENDS SessionDoc, FiniteSets

CONSTANTS Tasks,        \* the task ids of the captured spec
          DependsOn,    \* depends_on, normalized
          Ticks,        \* the reconciling ticks that may overlap
          Launcher,     \* who fires the run
          TurnStops,    \* the subtypes the harness ends a turn with
          MaxCrashes,   \* bound: how many workers die under way
          Faults

FaultKinds ==
  {"launch_error",   \* resolving, creating, queueing or triggering raises
   "lookup_error",   \* so does the look at what became of that launch
   "lost_reply",     \* the session is created, and create raises all the same
   "exec_dies",      \* an execution ends without releasing
   "kill",           \* the operator kills a task's session
   "slow_launch",    \* a launcher takes longer than START_GRACE over a task
   "slow_start",     \* an execution takes longer than START_GRACE to claim
   "late_mark"}      \* a whole execution fits between trigger and mark_starting

ASSUME TaskAssumption == DependsOn \in [Tasks -> SUBSET Tasks]
ASSUME WorkerAssumption ==
  Tasks \cap Ticks = {} /\ Launcher \notin Tasks \cup Ticks
ASSUME CrashAssumption == MaxCrashes \in Nat
ASSUME FaultAssumption == Faults \subseteq FaultKinds

(* Whoever runs _advance: the launcher, a tick, or the runner of a task,   *)
(* named by the task.                                                      *)
Workers == Tasks \cup Ticks \cup {Launcher}

VARIABLES
  run,        \* status of the run document
  task,       \* status of each task in it
  stale,      \* which launching tasks are past the start grace
  registered, \* the workflow's last_run_id names this run
  session,    \* the session of each task, under its pre-assigned id
  stop,       \* its stop_reason
  exec,       \* its execution: "none", "booting" or "running"
  prompts,    \* history: prompts queued for each task
  pc,         \* what each worker does next
  todo,       \* the tasks each worker claimed and has not started
  at,         \* the tasks (one or none) each worker is starting
  fin,        \* the outcomes (one or none) each worker is about to record
  left,       \* what each tick still has to look at from its read of the run
  sweeping,   \* which ticks are in the loop of reconcile
  crashes     \* counter of the bound

docVars == <<run, task, stale, registered>>
sessionVars == <<session, stop, exec, prompts>>
workVars == <<pc, todo, at, fin, left, sweeping>>
vars == <<run, task, stale, registered, session, stop, exec, prompts,
          pc, todo, at, fin, left, sweeping, crashes>>

-----------------------------------------------------------------------------
TaskStatuses == {"pending", "launching", "running", "succeeded", "failed", "skipped"}
Terminal == {"succeeded", "failed", "skipped"}
Outcomes == [task : Tasks, status : {"succeeded", "failed"}]
Duties == [task : Tasks, status : {"running", "launching"}]

Stations == {"off", "register", "look", "commit", "start", "lookup", "create", "push",
             "ensure", "trigger", "starting", "mark", "failing", "fail", "sweep"}

Goto(w, station) == pc' = [pc EXCEPT ![w] = station]

(* The run document after one pass of the mutate in _advance.              *)

Recorded(outcomes) ==
  [t \in Tasks |-> IF [task |-> t, status |-> "succeeded"] \in outcomes THEN "succeeded"
                   ELSE IF [task |-> t, status |-> "failed"] \in outcomes THEN "failed"
                   ELSE task[t]]

(* _propagate_skips: the least set that holds every pending task with a    *)
(* dependency that failed, was skipped before, or is in the set.           *)
SkipClosed(status, S) ==
  \A t \in Tasks :
    /\ status[t] = "pending"
    /\ \E d \in DependsOn[t] : status[d] \in {"failed", "skipped"} \/ d \in S
    => t \in S

SkipCone(status) ==
  {t \in Tasks : /\ status[t] = "pending"
                 /\ \A S \in SUBSET Tasks : SkipClosed(status, S) => t \in S}

Skipped(status) ==
  [t \in Tasks |-> IF t \in SkipCone(status) THEN "skipped" ELSE status[t]]

(* _claim_ready.                                                           *)
(* Mutants: one dependency is enough; as the document stood before the     *)
(* outcome was recorded.                                                   *)
ReadyOnAny(status) ==
  {t \in Tasks : /\ status[t] = "pending"
                 /\ DependsOn[t] = {} \/ \E d \in DependsOn[t] : status[d] = "succeeded"}

ReadyBefore(status) ==
  {t \in Tasks : /\ status[t] = "pending"
                 /\ \A d \in DependsOn[t] : task[d] = "succeeded"}

Ready(status) ==
  {t \in Tasks : /\ status[t] = "pending"
                 /\ \A d \in DependsOn[t] : status[d] = "succeeded"}

Launched(status) ==
  [t \in Tasks |-> IF t \in Ready(status) THEN "launching" ELSE status[t]]

(* Mutant: one success makes the run a success.                            *)
VerdictOfSome(status) ==
  IF \E t \in Tasks : status[t] \notin Terminal THEN "running"
  ELSE IF \E t \in Tasks : status[t] = "succeeded" THEN "succeeded" ELSE "failed"

Verdict(status) ==
  IF \E t \in Tasks : status[t] \notin Terminal THEN "running"
  ELSE IF \A t \in Tasks : status[t] = "succeeded" THEN "succeeded" ELSE "failed"

(* advance: the outcome a released session is read as.                     *)
OutcomeOf(t) ==
  [task |-> t,
   status |-> IF session[t].status = "idle" /\ stop[t] = "end_turn"
              THEN "succeeded" ELSE "failed"]

-----------------------------------------------------------------------------
(* launch has just created the run document.                               *)
Init ==
  /\ run = "running"
  /\ task = [t \in Tasks |-> "pending"]
  /\ stale = [t \in Tasks |-> FALSE]
  /\ registered = FALSE
  /\ session = [t \in Tasks |-> [NewSession EXCEPT !.exists = FALSE]]
  /\ stop = [t \in Tasks |-> "none"]
  /\ exec = [t \in Tasks |-> "none"]
  /\ prompts = [t \in Tasks |-> 0]
  /\ pc = [w \in Workers |-> IF w = Launcher THEN "register" ELSE "off"]
  /\ todo = [w \in Workers |-> {}]
  /\ at = [w \in Workers |-> {}]
  /\ fin = [w \in Workers |-> {}]
  /\ left = [w \in Workers |-> {}]
  /\ sweeping = [w \in Workers |-> FALSE]
  /\ crashes = 0

(* update_workflow: from here on the ticks know the run.                   *)
Register(w) ==
  /\ pc[w] = "register"
  /\ registered' = TRUE
  /\ Goto(w, "commit")
  /\ UNCHANGED <<run, task, stale, sessionVars, todo, at, fin, left, sweeping, crashes>>

-----------------------------------------------------------------------------
(* _advance: the transaction, then one claimed task after the other.       *)

(* _record_finished: another advancer recorded it already.                 *)
Raced(outcomes) == \E o \in outcomes : task[o.task] \in Terminal

Commit(w) ==
  /\ pc[w] = "commit"
  /\ LET after == Skipped(Recorded(fin[w]))
     IN IF run # "running" \/ Raced(fin[w])
        THEN UNCHANGED <<run, task, stale, todo>>
        ELSE /\ task' = Launched(after)
             /\ run' = Verdict(task')
             /\ stale' = [t \in Tasks |-> stale[t] /\ t \notin Ready(after)]
             /\ todo' = [todo EXCEPT ![w] = @ \cup Ready(after)]
  /\ fin' = [fin EXCEPT ![w] = {}]
  /\ Goto(w, "start")
  /\ UNCHANGED <<registered, sessionVars, at, left, sweeping, crashes>>

NextClaimed(w) ==
  /\ pc[w] = "start"
  /\ \E t \in todo[w] :
       /\ at' = [at EXCEPT ![w] = {t}]
       /\ todo' = [todo EXCEPT ![w] = @ \ {t}]
  /\ Goto(w, "lookup")
  /\ UNCHANGED <<docVars, sessionVars, fin, left, sweeping, crashes>>

AdvanceDone(w) ==
  /\ pc[w] = "start" /\ todo[w] = {}
  /\ Goto(w, IF sweeping[w] THEN "sweep" ELSE "off")
  /\ UNCHANGED <<docVars, sessionVars, todo, at, fin, left, sweeping, crashes>>

-----------------------------------------------------------------------------
(* _start_task: one claimed task, under its pre-assigned session id.       *)

Lookup(w) ==
  /\ pc[w] = "lookup"
  /\ \E t \in at[w] : Goto(w, IF session[t].exists THEN "mark" ELSE "create")
  /\ UNCHANGED <<docVars, sessionVars, todo, at, fin, left, sweeping, crashes>>

(* Mutant: the session is written whether the id is taken or not.          *)
CreateAnyway(w) ==
  /\ pc[w] = "create"
  /\ \E t \in at[w] : session' = [session EXCEPT ![t] = NewSession]
  /\ Goto(w, "push")
  /\ UNCHANGED <<docVars, stop, exec, prompts, todo, at, fin, left, sweeping, crashes>>

(* create_session: whoever loses the race for the id leaves the prompt to  *)
(* the winner; so does one whose own create landed but was retried.        *)
Create(w) ==
  /\ pc[w] = "create"
  /\ \E t \in at[w] :
       IF session[t].exists
       THEN UNCHANGED session /\ Goto(w, "mark")
       ELSE /\ session' = [session EXCEPT ![t] = NewSession]
            /\ \/ Goto(w, "push")
               \/ "lost_reply" \in Faults /\ Goto(w, "mark")
  /\ UNCHANGED <<docVars, stop, exec, prompts, todo, at, fin, left, sweeping, crashes>>

Push(w) ==
  /\ pc[w] = "push"
  /\ \E t \in at[w] : prompts' = [prompts EXCEPT ![t] = @ + 1]
  /\ Goto(w, "ensure")
  /\ UNCHANGED <<docVars, session, stop, exec, todo, at, fin, left, sweeping, crashes>>

Ensure(w) ==
  /\ pc[w] = "ensure"
  /\ \E t \in at[w] :
       Goto(w, IF IsDead(session[t]) \/ LeaseActive(session[t]) THEN "mark" ELSE "trigger")
  /\ UNCHANGED <<docVars, sessionVars, todo, at, fin, left, sweeping, crashes>>

Trigger(w) ==
  /\ pc[w] = "trigger"
  /\ \E t \in at[w] :
       exec' = [exec EXCEPT ![t] = IF @ = "none" THEN "booting" ELSE @]
  /\ Goto(w, "starting")
  /\ UNCHANGED <<docVars, session, stop, prompts, todo, at, fin, left, sweeping, crashes>>

Starting(w) ==
  /\ pc[w] = "starting"
  /\ \E t \in at[w] : session' = [session EXCEPT ![t] = MarkStarting(@)]
  /\ Goto(w, "mark")
  /\ UNCHANGED <<docVars, stop, exec, prompts, todo, at, fin, left, sweeping, crashes>>

(* mark_running.                                                           *)
Mark(w) ==
  /\ pc[w] = "mark"
  /\ \E t \in at[w] :
       /\ task' = [task EXCEPT ![t] = IF @ = "launching" THEN "running" ELSE @]
       /\ stale' = [stale EXCEPT ![t] = FALSE]
  /\ at' = [at EXCEPT ![w] = {}]
  /\ Goto(w, "start")
  /\ UNCHANGED <<run, registered, sessionVars, todo, fin, left, sweeping, crashes>>

LaunchError(w) ==
  /\ "launch_error" \in Faults
  /\ pc[w] \in {"lookup", "create", "push", "ensure", "trigger", "starting"}
  /\ Goto(w, "failing")
  /\ UNCHANGED <<docVars, sessionVars, todo, at, fin, left, sweeping, crashes>>

(* Mutant: a launch that raised has failed, session or not.                *)
FailingAnyway(w) ==
  /\ pc[w] = "failing"
  /\ Goto(w, "fail")
  /\ UNCHANGED <<docVars, sessionVars, todo, at, fin, left, sweeping, crashes>>

(* _fail_launch: not if a session stands under the id; unless even that    *)
(* cannot be found out.                                                    *)
Failing(w) ==
  /\ pc[w] = "failing"
  /\ \E t \in at[w] :
       \/ session[t].exists /\ Goto(w, "start") /\ at' = [at EXCEPT ![w] = {}]
       \/ /\ ~session[t].exists \/ "lookup_error" \in Faults
          /\ Goto(w, "fail") /\ UNCHANGED at
  /\ UNCHANGED <<docVars, sessionVars, todo, fin, left, sweeping, crashes>>

Fail(w) ==
  /\ pc[w] = "fail"
  /\ \E t \in at[w] :
       IF task[t] = "launching"
       THEN task' = [task EXCEPT ![t] = "failed"] /\ Goto(w, "commit")
       ELSE UNCHANGED task /\ Goto(w, "start")
  /\ at' = [at EXCEPT ![w] = {}]
  /\ UNCHANGED <<run, stale, registered, sessionVars, todo, fin, left, sweeping, crashes>>

-----------------------------------------------------------------------------
(* _advance_workflow: the runner reads its session once it has released.   *)
Look(w) ==
  /\ w \in Tasks /\ pc[w] = "look"
  /\ fin' = [fin EXCEPT ![w] = {OutcomeOf(w)}]
  /\ Goto(w, "commit")
  /\ UNCHANGED <<docVars, sessionVars, todo, at, left, sweeping, crashes>>

-----------------------------------------------------------------------------
(* reconcile: one read of the run, then task by task, then a last advance. *)

TickStart(w) ==
  /\ w \in Ticks /\ pc[w] = "off"
  /\ registered /\ run = "running"
  /\ left' = [left EXCEPT ![w] =
                 {d \in Duties : /\ task[d.task] = d.status
                                 /\ d.status = "launching" => stale[d.task]}]
  /\ sweeping' = [sweeping EXCEPT ![w] = TRUE]
  /\ Goto(w, "sweep")
  /\ UNCHANGED <<docVars, sessionVars, todo, at, fin, crashes>>

Relaunch(w) ==
  /\ pc[w] = "sweep"
  /\ \E d \in left[w] :
       /\ d.status = "launching"
       /\ at' = [at EXCEPT ![w] = {d.task}]
       /\ left' = [left EXCEPT ![w] = @ \ {d}]
  /\ Goto(w, "lookup")
  /\ UNCHANGED <<docVars, sessionVars, todo, fin, sweeping, crashes>>

(* A task is marked by one tick and looked at by a later one, START_GRACE  *)
(* or two minutes after its trigger: its execution came up, or is slow.    *)
OnItsWay(t) ==
  "slow_start" \notin Faults /\ exec[t] = "booting" /\ ~IsDead(session[t])

StillUp(s) == LeaseActive(s) \/ StartPending(s)

(* Mutant: a running task whose session is down was lost.                  *)
DerivedLost(t) == [task |-> t, status |-> "failed"]

Derived(t) ==
  IF session[t].exists /\ session[t].status = "idle"
  THEN OutcomeOf(t) ELSE [task |-> t, status |-> "failed"]

Inspect(w) ==
  /\ pc[w] = "sweep"
  /\ \E d \in left[w] :
       /\ d.status = "running"
       /\ OnItsWay(d.task) => StartPending(session[d.task])
       /\ left' = [left EXCEPT ![w] = @ \ {d}]
       /\ IF StillUp(session[d.task])
          THEN UNCHANGED <<pc, fin>>
          ELSE fin' = [fin EXCEPT ![w] = {Derived(d.task)}] /\ Goto(w, "commit")
  /\ UNCHANGED <<docVars, sessionVars, todo, at, sweeping, crashes>>

(* Mutant: the sweep ends with the last task it looked at.                 *)
LastAdvanceSkipped(w) ==
  /\ pc[w] = "sweep" /\ left[w] = {}
  /\ sweeping' = [sweeping EXCEPT ![w] = FALSE]
  /\ Goto(w, "off")
  /\ UNCHANGED <<docVars, sessionVars, todo, at, fin, left, crashes>>

LastAdvance(w) ==
  /\ pc[w] = "sweep" /\ left[w] = {}
  /\ sweeping' = [sweeping EXCEPT ![w] = FALSE]
  /\ Goto(w, "commit")
  /\ UNCHANGED <<docVars, sessionVars, todo, at, fin, left, crashes>>

(* A worker dies with what it held in memory.                              *)
Crash(w) ==
  /\ pc[w] # "off" /\ crashes < MaxCrashes
  /\ crashes' = crashes + 1
  /\ Goto(w, "off")
  /\ todo' = [todo EXCEPT ![w] = {}]
  /\ at' = [at EXCEPT ![w] = {}]
  /\ fin' = [fin EXCEPT ![w] = {}]
  /\ left' = [left EXCEPT ![w] = {}]
  /\ sweeping' = [sweeping EXCEPT ![w] = FALSE]
  /\ UNCHANGED <<docVars, sessionVars>>

-----------------------------------------------------------------------------
(* The sessions.                                                           *)

ExecClaim(t) ==
  /\ exec[t] = "booting"
  /\ IF CanClaim(session[t], 1)
     THEN /\ session' = [session EXCEPT ![t] = Claimed(@, 1)]
          /\ exec' = [exec EXCEPT ![t] = "running"]
     ELSE /\ UNCHANGED session
          /\ exec' = [exec EXCEPT ![t] = "none"]
  /\ UNCHANGED <<docVars, stop, prompts, workVars, crashes>>

(* Release after the last turn, or after a failure; the runner goes on to  *)
(* advance the run.                                                        *)
ExecFinish(t) ==
  /\ exec[t] = "running" /\ pc[t] = "off"
  /\ "late_mark" \in Faults \/ \A w \in Workers : pc[w] = "starting" => t \notin at[w]
  /\ exec' = [exec EXCEPT ![t] = "none"]
  /\ session' = [session EXCEPT ![t] = Released(@)]
  /\ \E reason \in TurnStops \cup {"error"} : stop' = [stop EXCEPT ![t] = reason]
  /\ Goto(t, "look")
  /\ UNCHANGED <<docVars, prompts, todo, at, fin, left, sweeping, crashes>>

(* Gone without a release: a death, or a kill that the heartbeat noticed.  *)
ExecGone(t) ==
  /\ exec[t] = "running"
  /\ "exec_dies" \in Faults \/ IsDead(session[t])
  /\ exec' = [exec EXCEPT ![t] = "none"]
  /\ UNCHANGED <<docVars, session, stop, prompts, workVars, crashes>>

Kill(t) ==
  /\ "kill" \in Faults
  /\ session[t].exists /\ ~session[t].disabled
  /\ session' = [session EXCEPT ![t] = Killed(@)]
  /\ UNCHANGED <<docVars, stop, exec, prompts, workVars, crashes>>

(* The windows lapse: never while a heartbeat renews the lease, and not    *)
(* before an execution on its way had its time.                            *)
SessionLapse(t) ==
  /\ session[t].lease_left > 0 \/ session[t].start_left > 0
  /\ exec[t] # "running"
  /\ ~OnItsWay(t)
  /\ session' = [session EXCEPT ![t] = Aged(@)]
  /\ UNCHANGED <<docVars, stop, exec, prompts, workVars, crashes>>

GoStale(t) ==
  /\ task[t] = "launching" /\ ~stale[t]
  /\ "slow_launch" \in Faults \/ \A w \in Workers : t \notin at[w] \cup todo[w]
  /\ ~OnItsWay(t)
  /\ stale' = [stale EXCEPT ![t] = TRUE]
  /\ UNCHANGED <<run, task, registered, sessionVars, workVars, crashes>>

-----------------------------------------------------------------------------
Advance(w) ==
  \/ Register(w) \/ Look(w) \/ Commit(w) \/ NextClaimed(w) \/ AdvanceDone(w)
  \/ Lookup(w) \/ Create(w) \/ Push(w) \/ Ensure(w) \/ Trigger(w) \/ Starting(w) \/ Mark(w)
  \/ Failing(w) \/ Fail(w)
  \/ TickStart(w) \/ Relaunch(w) \/ Inspect(w) \/ LastAdvance(w)

Next ==
  \/ \E w \in Workers : Advance(w) \/ LaunchError(w) \/ Crash(w)
  \/ \E t \in Tasks : \/ ExecClaim(t) \/ ExecFinish(t) \/ ExecGone(t)
                      \/ Kill(t) \/ SessionLapse(t) \/ GoStale(t)

Spec == Init /\ [][Next]_vars

(* Workers that live go on, and the scheduler keeps ticking; executions    *)
(* come up and their turns end; windows lapse.  Whatever keeps launches    *)
(* from their options does not do so for good.                             *)
FairSpec ==
  /\ Spec
  /\ \A w \in Workers : WF_vars(Advance(w)) /\ SF_vars(Lookup(w))
  /\ \A t \in Tasks : /\ WF_vars(ExecClaim(t)) /\ WF_vars(ExecFinish(t) \/ ExecGone(t))
                      /\ WF_vars(SessionLapse(t)) /\ WF_vars(GoStale(t))

-----------------------------------------------------------------------------
TypeOK ==
  /\ run \in {"running", "succeeded", "failed"}
  /\ task \in [Tasks -> TaskStatuses]
  /\ stale \in [Tasks -> BOOLEAN]
  /\ registered \in BOOLEAN
  /\ session \in [Tasks -> SessionDocs]
  /\ stop \in [Tasks -> TurnStops \cup {"none", "error"}]
  /\ exec \in [Tasks -> {"none", "booting", "running"}]
  /\ prompts \in [Tasks -> Nat]
  /\ pc \in [Workers -> Stations]
  /\ todo \in [Workers -> SUBSET Tasks]
  /\ at \in [Workers -> SUBSET Tasks]
  /\ fin \in [Workers -> SUBSET Outcomes]
  /\ left \in [Workers -> SUBSET Duties]
  /\ sweeping \in [Workers -> BOOLEAN]
  /\ crashes \in 0..MaxCrashes

(* "a task is launched exactly once": however many launchers come to share *)
(* a claimed session id, the prompt of a task is queued at most once.      *)
LaunchedOnce == \A t \in Tasks : prompts[t] <= 1

(* A prompt goes out only when everything the task depends on has          *)
(* succeeded, so the results it interpolates are there.                    *)
PromptedInOrder ==
  \A t \in Tasks : prompts[t] > 0 => \A d \in DependsOn[t] : task[d] = "succeeded"

(* Recording an outcome and claiming what it made ready is one transaction:*)
(* no dependent of finished tasks is ever left for nobody to claim.        *)
ClaimedAtOnce ==
  \A t \in Tasks :
    task[t] = "pending" /\ DependsOn[t] # {} => \E d \in DependsOn[t] : task[d] # "succeeded"

(* A task is not written off while an execution works on it, or is about   *)
(* to: no live session under a run that declared it dead.                  *)
NoWorkOnFailed ==
  \A t \in Tasks :
    task[t] \in {"failed", "skipped"} =>
      /\ exec[t] # "running"
      /\ exec[t] = "booting" => IsDead(session[t])

(* A session that ended its turn and was not killed is a task that         *)
(* succeeded, whoever records it.                                          *)
SuccessIsRecorded ==
  \A t \in Tasks : task[t] = "failed" => stop[t] # "end_turn" \/ session[t].disabled

(* The run moves as WorkflowPromise says.                                  *)
Promise ==
  INSTANCE WorkflowPromise WITH
    progress <- [t \in Tasks |-> IF task[t] \in {"launching", "running"}
                                 THEN "active" ELSE task[t]],
    verdict <- run

KeepsPromise == Promise!Spec

(* The inductive invariant behind the safety properties.  A task has begun *)
(* once it was claimed; nobody holds, and nothing stands for, one that has *)
(* not.                                                                    *)
Begun == {t \in Tasks : task[t] \notin {"pending", "skipped"}}

BegunInOrder == \A t \in Begun : \A d \in DependsOn[t] : task[d] = "succeeded"

HeldHasBegun ==
  \A w \in Workers :
    /\ todo[w] \subseteq Begun
    /\ at[w] \subseteq Begun
    /\ \A o \in fin[w] \cup left[w] : o.task \in Begun

LiveHasBegun ==
  \A t \in Tasks :
    exec[t] # "none" \/ pc[t] = "look" \/ prompts[t] > 0 => t \in Begun

ClosedIsOver == run # "running" => \A t \in Tasks : task[t] \in Terminal

(* Who is about to queue the prompt of a task created its session.         *)
Pushing(w, t) == pc[w] = "push" /\ t \in at[w]

OneStarter ==
  /\ \A w \in Workers : \A t, u \in at[w] : t = u
  /\ \A t \in Tasks : ~session[t].exists => prompts[t] = 0
  /\ \A w \in Workers, t \in Tasks :
       Pushing(w, t) => session[t].exists /\ prompts[t] = 0
  /\ \A v, w \in Workers, t \in Tasks : Pushing(v, t) /\ Pushing(w, t) => v = w

OrderInv == BegunInOrder /\ HeldHasBegun /\ LiveHasBegun /\ ClosedIsOver

StartInv == OneStarter /\ LaunchedOnce

(* A run the scheduler knows is closed in the end, whoever died under way. *)
RunSettles == registered ~> run # "running"

-----------------------------------------------------------------------------
(* The inductive invariant behind NoWorkOnFailed and SuccessIsRecorded,    *)
(* while nobody outlives a window meant for it and no tick the next one.   *)
Timely ==
  /\ Faults \subseteq {"launch_error", "lost_reply", "exec_dies", "kill"}
  /\ \A v, w \in Ticks : v = w

(* Where a worker stands says what it can have in hand.                    *)
HandsMatchStation ==
  \A w \in Workers :
    /\ pc[w] = "off" => todo[w] = {} /\ left[w] = {}
    /\ pc[w] \in {"off", "register", "look", "commit", "start", "sweep"} => at[w] = {}
    /\ left[w] # {} => w \in Ticks /\ sweeping[w]

(* A launch is in one hand, once.                                          *)
ToRelaunch(w) == {t \in Tasks : [task |-> t, status |-> "launching"] \in left[w]}
InHand(w) == todo[w] \cup at[w] \cup ToRelaunch(w)

OneHolder ==
  /\ \A w \in Workers :
       todo[w] \cap at[w] = {} /\ ToRelaunch(w) \cap (todo[w] \cup at[w]) = {}
  /\ \A v, w \in Workers, t \in Tasks : t \in InHand(v) /\ t \in InHand(w) => v = w
  /\ \A w \in Workers, t \in Tasks : stale[t] /\ t \in todo[w] \cup at[w] => w \in Ticks

(* Before its session stands and whoever created it is done with it, or    *)
(* gone, nothing can have become of a task but that it cannot be launched. *)
Started(t) ==
  /\ session[t].exists
  /\ \A w \in Workers : pc[w] \in {"push", "ensure", "trigger"} => t \notin at[w]

NothingYet ==
  \A t \in Tasks :
    ~Started(t) =>
      /\ exec[t] = "none" /\ stop[t] = "none" /\ pc[t] # "look"
      /\ task[t] \notin {"running", "succeeded"}
      /\ \A w \in Workers :
           /\ t \in InHand(w) => task[t] = "launching"
           /\ pc[w] \in {"starting", "mark"} => t \notin at[w]
           /\ [task |-> t, status |-> "running"] \notin left[w]
           /\ \A o \in fin[w] : o.task # t

(* What has stopped has stopped for good, what runs has its lease.         *)
StopStands ==
  /\ \A t \in Tasks :
       /\ exec[t] = "running" => LeaseActive(session[t])
       /\ pc[t] = "look" \/ stop[t] # "none" => exec[t] = "none"
       /\ stop[t] = "end_turn" => session[t].status = "idle" \/ session[t].disabled
  /\ \A w \in Workers : \A t \in at[w] :
       /\ pc[w] \in {"push", "ensure", "trigger"} => session[t].exists
       /\ pc[w] = "starting" => stop[t] = "none"
       /\ pc[w] = "fail" => ~session[t].exists

(* Nothing works for a task that failed, or that somebody is about to      *)
(* record as failed, and its turn did not end.                             *)
Lost(t) ==
  /\ exec[t] # "running"
  /\ exec[t] = "booting" => IsDead(session[t])
  /\ stop[t] # "end_turn" \/ session[t].disabled

FailedIsLost ==
  \A t \in Tasks :
    task[t] = "failed" \/ (\E w \in Workers : [task |-> t, status |-> "failed"] \in fin[w])
      => Lost(t)

TimelyInv == HandsMatchStation /\ OneHolder /\ NothingYet /\ StopStands /\ FailedIsLost

-----------------------------------------------------------------------------
(* A claim of the tests that the code does not keep.                       *)

(* A turn that ends with the subtype of a normal result ends its task well.*)
FinishedTaskSucceeds ==
  \A t \in Tasks :
    task[t] = "failed" => stop[t] \notin {"end_turn", "success"} \/ session[t].disabled
=============================================================================
