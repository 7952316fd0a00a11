------------------------------ MODULE Definitions ------------------------------
(***************************************************************************)
(* A workflow from its definition on (src/src/syros/workflows.py: create,  *)
(* _start_task; cron.py): the checks of TaskGraph and CronTimes admit it   *)
(* or not, its tasks run, its slots come, and meanwhile what it takes      *)
(* options from changes (agents.py, workspaces.py, the settings).          *)
(*                                                                         *)
(* How a task is launched is WorkflowRun's, how a slot is claimed is       *)
(* WorkflowSchedule's: here a task starts and ends, and a tick fires.      *)
(***************************************************************************)
EXTENDS TaskGraph, CronTimes

CONSTANTS Setups,      \* what people define: [by, tasks, options, cron, zone], and the
                       \* options of the agents and the settings they find
          Agents,      \* the names of agents
          Spaces,      \* the workspaces
          Layers,      \* the options people store for them
          Gone,        \* what is stored of an agent that was deleted
          Manual,      \* no schedule
          Start,       \* the time of the definition
          Late         \* bound: how many minutes after its slot a tick may come

(* A list of tasks, or the one of a session; agents and workspaces have    *)
(* names.                                                                  *)
NamesSpace(layer) == layer.space \in Spaces \cup {Unset}

ASSUME SetupAssumption ==
  \A s \in Setups :
    /\ IsFiniteSet(DOMAIN s.draft.tasks) /\ DOMAIN s.draft.tasks \subseteq Nat
    /\ s.draft.by \in {"workflow", "console", "client"}
    /\ s.draft.by # "workflow" =>
         DOMAIN s.draft.tasks = {1} /\ s.draft.tasks[1].refs = {} /\ s.draft.cron = Manual
    /\ s.draft.cron # Manual =>
         Numbered(s.draft.cron) /\ s.draft.zone.at \in Nat /\ s.draft.zone.jump \in Int
    /\ NamesSpace(s.draft.options)
    /\ \A t \in DOMAIN s.draft.tasks : /\ s.draft.tasks[t].agent \in Agents \cup {Unset}
                                       /\ NamesSpace(s.draft.tasks[t].options)
    /\ s.agents \in [Agents -> Layers \cup {Gone}] /\ s.settings \in Layers
ASSUME LayerAssumption == Default \in Layers /\ \A layer \in Layers : NamesSpace(layer)
ASSUME TimeAssumption == Start \in Nat /\ Late \in Nat

VARIABLES
  draft,      \* the definition
  stage,      \* "draft", "defined" or "refused"
  agents,     \* the stored options of each agent, or Gone
  spaces,     \* the stored options of each workspace
  settings,   \* settings/global
  changed,    \* history: some of these changed since the definition
  task,       \* status of each task in the one run
  options,    \* what each task was launched with
  now, slot   \* the clock, and next_run_at

storedVars == <<agents, spaces, settings, changed>>
runVars == <<task, options>>
timeVars == <<now, slot>>
defVars == <<draft, stage, agents, spaces, settings, changed, task, options, now, slot>>

Tasks == DOMAIN draft.tasks

DefInit ==
  /\ \E s \in Setups : draft = s.draft /\ agents = s.agents /\ settings = s.settings
  /\ stage = "draft"
  /\ spaces = [w \in Spaces |-> Default]
  /\ changed = FALSE
  /\ task = [t \in Tasks |-> "pending"]
  /\ options = [t \in Tasks |-> Default]
  /\ now = Start /\ slot = NoTime

-----------------------------------------------------------------------------
(* cron.validate, and the first slot.                                      *)
Fires(doc) ==
  doc.cron # Manual => /\ Parses(doc.cron)
                       /\ NextAfter(doc.cron, doc.zone, 0) # NoTime
                       /\ NextAfter(doc.cron, doc.zone, now) # NoTime

(* _validate_tasks.                                                        *)
Sound(doc) ==
  /\ \A t \in DOMAIN doc.tasks : OptionsOf(doc.tasks[t].agent, agents) # Gone
  /\ \A t \in DOMAIN doc.tasks : Validated(AsksFor(doc, t))
  /\ ~SharesConcurrently(doc, agents)

Create ==
  /\ stage = "draft" /\ draft.by = "workflow"
  /\ Normal(draft.tasks) /\ Fires(draft) /\ Sound(draft)
  /\ stage' = "defined"
  /\ slot' = IF draft.cron = Manual THEN NoTime ELSE NextAfter(draft.cron, draft.zone, now)
  /\ UNCHANGED <<draft, storedVars, runVars, now>>

CreateRefused ==
  /\ stage = "draft" /\ draft.by = "workflow"
  /\ ~(Normal(draft.tasks) /\ Fires(draft) /\ Sound(draft))
  /\ stage' = "refused"
  /\ UNCHANGED <<draft, storedVars, runVars, timeVars>>

(* A session of its own is one task, which runs from the start.            *)
AgentOf(t) == OptionsOf(draft.tasks[t].agent, agents)
Resolved(t) == Resolve(AsksFor(draft, t), AgentOf(t), spaces, settings)

StartSession(admitted) ==
  /\ IF admitted
     THEN /\ stage' = "defined"
          /\ task' = [task EXCEPT ![1] = "running"]
          /\ options' = [options EXCEPT ![1] = Resolved(1)]
     ELSE stage' = "refused" /\ UNCHANGED runVars
  /\ UNCHANGED <<draft, storedVars, timeVars>>

(* The console resolves first and validates what comes of it,              *)
ConsoleSession ==
  /\ stage = "draft" /\ draft.by = "console"
  /\ StartSession(AgentOf(1) # Gone /\ Validated(Resolved(1)))

(* a client validates what it asks for, and resolves.                      *)
ClientSession ==
  /\ stage = "draft" /\ draft.by = "client"
  /\ StartSession(Validated(AsksFor(draft, 1)) /\ AgentOf(1) # Gone)

(* The layers change, once: what is stored has been validated.             *)
Stores(layer) == stage = "defined" /\ ~changed /\ changed' = TRUE /\ Validated(layer)

UpdateAgent ==
  /\ \E a \in Agents, layer \in Layers :
       /\ agents[a] # Gone /\ Stores(layer)
       /\ agents' = [agents EXCEPT ![a] = layer]
  /\ UNCHANGED <<draft, stage, spaces, settings, runVars, timeVars>>

DeleteAgent ==
  /\ stage = "defined" /\ ~changed /\ changed' = TRUE
  /\ \E a \in Agents : agents[a] # Gone /\ agents' = [agents EXCEPT ![a] = Gone]
  /\ UNCHANGED <<draft, stage, spaces, settings, runVars, timeVars>>

(* agents.create: one of that name may have been deleted.                  *)
CreateAgent ==
  /\ \E a \in Agents, layer \in Layers :
       /\ agents[a] = Gone /\ Validated(layer)
       /\ agents' = [agents EXCEPT ![a] = layer]
  /\ UNCHANGED <<draft, stage, spaces, settings, changed, runVars, timeVars>>

UpdateWorkspace ==
  /\ \E w \in Spaces, layer \in Layers : Stores(layer) /\ spaces' = [spaces EXCEPT ![w] = layer]
  /\ UNCHANGED <<draft, stage, agents, settings, runVars, timeVars>>

UpdateSettings ==
  /\ \E layer \in Layers : Stores(layer) /\ settings' = layer
  /\ UNCHANGED <<draft, stage, agents, spaces, runVars, timeVars>>

-----------------------------------------------------------------------------
Ready(t) ==
  /\ task[t] = "pending"
  /\ \A d \in DependsOn(draft.tasks, t) : task[d] = "succeeded"

(* A task that fails takes with it what depends on it.                     *)
Failed(t) ==
  [u \in Tasks |-> IF u = t \/ t \in Closure(Direct(draft.tasks))[u] THEN "failed" ELSE task[u]]

(* _start_task resolves the options as they are stored now.                *)
StartTask(t) ==
  /\ stage = "defined" /\ Ready(t)
  /\ AgentOf(t) # Gone
  /\ options' = [options EXCEPT ![t] = Resolved(t)]
  /\ task' = [task EXCEPT ![t] = "running"]
  /\ UNCHANGED <<draft, stage, storedVars, timeVars>>

StartFails(t) ==
  /\ stage = "defined" /\ Ready(t)
  /\ AgentOf(t) = Gone
  /\ task' = Failed(t)
  /\ UNCHANGED <<draft, stage, storedVars, options, timeVars>>

FinishTask(t) ==
  /\ task[t] = "running"
  /\ task' \in {[task EXCEPT ![t] = "succeeded"], Failed(t)}
  /\ UNCHANGED <<draft, stage, storedVars, options, timeVars>>

(* A tick comes, late or not, and the slot moves past it.                  *)
Fire ==
  /\ slot # NoTime
  /\ now' \in slot..(slot + Late)
  /\ slot' = NextAfter(draft.cron, draft.zone, now') /\ slot' # NoTime
  /\ UNCHANGED <<draft, stage, storedVars, runVars>>

DefNext ==
  \/ Create \/ CreateRefused \/ ConsoleSession \/ ClientSession \/ Fire
  \/ UpdateAgent \/ DeleteAgent \/ CreateAgent \/ UpdateWorkspace \/ UpdateSettings
  \/ \E t \in Tasks : StartTask(t) \/ StartFails(t) \/ FinishTask(t)

DefSpec == DefInit /\ [][DefNext]_defVars

-----------------------------------------------------------------------------
DefTypeOK ==
  /\ stage \in {"draft", "defined", "refused"}
  /\ agents \in [Agents -> Layers \cup {Gone}]
  /\ spaces \in [Spaces -> Layers]
  /\ settings \in Layers
  /\ changed \in BOOLEAN
  /\ task \in [Tasks -> {"pending", "running", "succeeded", "failed"}]
  /\ DOMAIN options = Tasks
  /\ now \in Nat /\ slot \in Nat \cup {NoTime}

(* A workflow that was admitted runs to its end: there is always a task to *)
(* go on with until none is left, and the results a prompt interpolates    *)
(* are there when it is rendered ("the one shape whose result may not      *)
(* exist by the time the prompt renders" is rejected).                     *)
RunsThrough ==
  stage = "defined" =>
    /\ (\E t \in Tasks : task[t] = "pending") => \E t \in Tasks : Ready(t) \/ task[t] = "running"
    /\ \A t \in Tasks, d \in Tasks :
         task[t] = "running" /\ d \in draft.tasks[t].refs => task[d] = "succeeded"

(* "Fail at definition time, not at the first firing".                     *)
Live(t) == stage = "defined" /\ task[t] = "running"

(* No two live tasks of a run need one workspace, whose lease is exclusive,*)
NoWorkspaceClash ==
  ~changed /\ settings.space = Unset =>
    \A t, u \in Tasks :
      Live(t) /\ Live(u) /\ t # u /\ options[t].space # Unset =>
        options[t].space # options[u].space

(* and no connector's server, with the credential it carries, is dropped   *)
(* for one of the same name, unless a stored layer brings in one of the    *)
(* two: the console lets that pass for no session.                         *)
BringsServers(layer) == layer.connectors # Unset \/ layer.servers # {}

StoredServers == \E layer \in {settings} \cup {spaces[w] : w \in Spaces} : BringsServers(layer)

NothingDropped ==
  draft.by = "console" \/ (~changed /\ ~StoredServers) =>
    \A t \in Tasks :
      /\ Live(t) /\ (draft.by = "console" \/ ~BringsServers(AgentOf(t)))
      /\ options[t].connectors # Unset
      => \A n \in ServerNames(options[t].connectors) : Mounted(options[t])[n] = "connector"

(* What was found sound when it was defined is launched sound.             *)
LaunchesAsChecked == NoWorkspaceClash /\ NothingDropped

-----------------------------------------------------------------------------
(* The inductive invariants behind RunsThrough and LaunchesAsChecked.      *)

(* What the definition was admitted for.                                   *)
Admitted ==
  /\ \E s \in Setups : draft = s.draft
  /\ stage # "defined" => \A t \in Tasks : task[t] = "pending"
  /\ stage = "defined" => IF draft.by = "workflow" THEN Normal(draft.tasks)
                                                  ELSE task[1] # "pending"

(* All that is upstream of a task that started has succeeded, all that is  *)
(* downstream of one that failed has failed.                               *)
Flows ==
  stage = "defined" /\ draft.by = "workflow" =>
    \A t \in Tasks :
      /\ task[t] \in {"running", "succeeded"} =>
           \A d \in Closure(Direct(draft.tasks))[t] : task[d] = "succeeded"
      /\ \A d \in DependsOn(draft.tasks, t) : task[d] = "failed" => task[t] = "failed"

FlowInv == Admitted /\ Flows

(* As long as nothing stored has changed, the options of a live task are   *)
(* those it was found sound with.                                          *)
AsStored ==
  ~changed =>
    /\ \A w \in Spaces : spaces[w] = Default
    /\ stage = "defined" =>
         /\ draft.by = "workflow" => Sound(draft)
         /\ \A t \in Tasks : task[t] = "running" => AgentOf(t) # Gone /\ options[t] = Resolved(t)

AsValidated ==
  stage = "defined" =>
    \A t \in Tasks :
      IF draft.by = "console" THEN task[t] = "running" => Validated(options[t])
                              ELSE Validated(AsksFor(draft, t))

LaunchInv == AsStored /\ AsValidated

-----------------------------------------------------------------------------
(* When an expression fires, told from the instant: what its wall clock    *)
(* shows for the first time, or would have shown had it not jumped over    *)
(* it, is admitted by every field, but of the day fields that are          *)
(* restricted one is enough.                                               *)
DueOn(expr, d) ==
  LET days == IF Restricted(expr.day) THEN {DateOf[d].day \in Field(expr.day, 1, MonthDays)} ELSE {}
      weekdays == IF Restricted(expr.weekday) THEN {d % WeekDays \in WeekdaysOf(expr)} ELSE {}
  IN  /\ DateOf[d].month \in Field(expr.month, 1, Months)
      /\ days \cup weekdays # {} => TRUE \in days \cup weekdays

Shows(expr, wall) ==
  LET d == wall \div MinutesPerDay IN
  /\ d \in Days /\ DueOn(expr, d)
  /\ (wall % MinutesPerDay) \div MinutesPerHour \in Field(expr.hour, 0, HoursPerDay - 1)
  /\ wall % MinutesPerHour \in Field(expr.minute, 0, MinutesPerHour - 1)

FiresAt(expr, zone, i) ==
  \/ Shows(expr, WallAt(zone, i)) /\ ~(zone.jump < 0 /\ i \in zone.at..(zone.at - zone.jump - 1))
  \/ zone.jump > 0 /\ i \in zone.at..(zone.at + zone.jump - 1) /\ Shows(expr, i)

(* The next slot is the first time the expression fires after the tick     *)
(* that was here last, across a jump of the clocks too: none is skipped,   *)
(* none comes twice, and "a schedule must never fire backwards".           *)
SlotAhead ==
  stage = "defined" /\ draft.cron # Manual => slot > now /\ FiresAt(draft.cron, draft.zone, slot)

NoneBefore ==
  stage = "defined" /\ draft.cron # Manual =>
    \A i \in (now + 1)..(slot - 1) : ~FiresAt(draft.cron, draft.zone, i)

SlotIsNext == SlotAhead /\ NoneBefore

(* The walls of a day are gone through in their order.  The times that the *)
(* clocks pass over keep to it if they go forward by an hour, on the hour  *)
(* and not within the last hour of a day; otherwise next_after may go      *)
(* past a slot.                                                            *)
ByTheHour(zone) ==
  zone.jump > 0 =>
    /\ zone.jump = MinutesPerHour /\ zone.at % MinutesPerHour = 0
    /\ (zone.at % MinutesPerDay) + 2 * MinutesPerHour <= MinutesPerDay

JumpsByTheHour == \A s \in Setups : s.draft.cron # Manual => ByTheHour(s.draft.zone)

(* The inductive invariant behind SlotIsNext.                              *)
SlotInv ==
  /\ now \in Nat
  /\ IF stage = "defined" /\ draft.cron # Manual
     THEN /\ Parses(draft.cron)
          /\ slot = NextAfter(draft.cron, draft.zone, now) /\ slot # NoTime
     ELSE slot = NoTime
=============================================================================
