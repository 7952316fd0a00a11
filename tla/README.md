# syros: TLA+ verification project

TLA+ models, model-checked properties and machine-checked proofs of the parts of syros
whose correctness rests on the order of things: sessions that are served by executions which
come, go and die, and workflow runs that several processes move forward at once. There is no
coordinator in syros; everything below meets in Firestore documents and in a few transactions
on them (`src/src/syros/store.py`).

Paths below are relative to the repository; `store.py` means `src/src/syros/store.py`.

## 1. The system

| Part | State it keeps | Operations | Talks to |
|---|---|---|---|
| Session document (`store.py`) | `runtime` map (status, lease id, lease expiry, triggered_at, seq_head), `disabled` | create, mark_starting, claim, renew, release, update (kill), delete; predicates `lease_active`, `is_dead`, `start_pending`; `derived_state` of the console | everybody |
| Runner (`runner.py`) | its lease id, `lost`, the journal writer's cursor, its peeked batch | `run()`: claim, recover, set up, loop over the inbox, turn, flush, tail, release, advance, hand off; `fail_fast`; heartbeat task | session document, inbox, journal, workflow run, Cloud Run |
| Senders (`remote.py`) | none | `send_prompt`, `ensure_running`, the handoff of a runner | inbox, session document, Cloud Run |
| Journal and branches (`journal.py`, `remote.py`) | records with a seq per branch, heads | append, `create_branch`, `recover_head`, `stream_response` | runner, clients |
| Workflow runs (`workflows.py`) | run document: status, a status and session id per task | `launch`, `_advance`, `_start_task`, `_fail_launch`, `advance`, `reconcile` | launcher, runners, ticks, sessions |
| Workflow schedule (`workflows.py`, `cron.py`) | workflow document: next_run_at, enabled, last_run_id, counters | `tick`, `claim_slot`, `run_now`, pause, resume, update | Cloud Scheduler, runs |
| Task graphs, cron (`workflows.py`, `cron.py`) | none | `normalize_tasks`, `dependency_closure`, `_validate_tasks`, `next_after` | workflow definitions, ticks |
| Tool gate (`gate.py`) | approval documents by call hash | `can_use_tool`, `_pre_tool_use`, `decide_approval` by console, CLI, SDK callback, timeout | runner, operators |
| Workspaces (`store.py`, `workspaces.py`, `workspace.py`, `artifacts.py`, `runner.py`) | a document with a lease; the files of the shared directory and of artifact spaces in the bucket | claim, re-claim by the heartbeat, release; restore, checkpoint, publish; the console's edits behind a look at the lease | runners, console, command line, presets |
| Agents, options, settings, connectors (`agents.py`, `options.py`, `connectors.py`) | one document each | `merge`, `resolve`, `validate`, `expand` | whoever creates a session |
| Presets, skills (`presets/__init__.py`, `skills.py`) | objects in the bucket, documents | `install`, `push`, `sync_official`, single-file writes | bucket, workspace document |
| Audit trail (`analytics.py`) | rows in BigQuery | `append_run_log` | runner |
| Console API and server, command line, client | none of their own | read, decide, kill, delete, CRUD | all documents |
| BigQuery export, front end, Terraform | none | copying, reporting | |

What is hard, and where:

* **Concurrency without locks.** A prompt can arrive while a run is shutting down
  (`runner.py:608`); two senders can trigger two executions (`remote.py:193`);
  a trigger's mark can come after the claim it announces (`store.py:403`). Two runners, the
  launcher and overlapping ticks race over one run document (`workflows.py:616`).
* **Failure.** Executions are killed by Cloud Run at any point; a worker dies between a
  transaction and the work it claimed in it (`workflows.py:663`); replies get lost
  (`runner.py:592`, `workflows.py:709`).
* **Time.** Leases lapse while a late heartbeat is on its way (`store.py:465`); a start has a
  grace window (`store.py:107`, `workflows.py:824`), and an execution or a launcher may outlive it.
  An approval runs out at the instant it is given (`gate.py:138`); a schedule crosses a jump of
  the clocks (`cron.py:171`).
* **Old reads.** A tick fires from a listing (`workflows.py:853`), the console writes a file some
  time after it looked at the lease (`console/api.py:710`), a checkpoint reads the tags first and
  uploads afterwards (`workspace.py:74`), a definition is checked when it is saved and launched
  much later (`workflows.py:266`), a client attaches while a crashed run has left the document's
  head behind (`remote.py:174`).

What makes each part correct: at most one execution works on a session, its journal never
forks, no prompt is lost or forgotten, a lease never keeps a session for good (sessions); the
branches form a tree, each with a conversation and an answer of its own (branches); each
task starts once, in order, its outcome stands, the run closes on all outcomes, and somebody
always carries on (runs); a slot fires once, from the current definition, and the workflow
knows its run (schedule); what was accepted can run, and runs with the options it was checked
with (definitions); a call runs only after an allow that was given for it (gate); one run per
workspace, and nobody's edit is lost to it (workspaces); a push or an install leaves what it
promised (skills, presets).

`PROJECT.json` lists every component with its status, every hazard at its line, and the map
from definitions to source lines.

## 2. Modules

```
SessionDoc          the session document: predicates and transactions as operators
  SessionRun        one session: senders, executions, heartbeats, console; uses SessionDoc
    MCSessionRun      its fault sets for TLC
  WorkflowRun       one run: launcher, runners, ticks; uses SessionDoc for the tasks' sessions
    MCWorkflowRun     its graphs and fault sets for TLC
WorkflowPromise     abstract: what a run promises; WorkflowRun implements it
WorkflowSchedule    one workflow document: ticks, callers, editors      (MCWorkflowSchedule)
ApprovalGate        the gate of one session and who answers it          (MCApprovalGate)
SessionBranches     one transcript: branches, runs, clients             (MCSessionBranches)
WorkspaceFiles      one workspace: lease, files, runs, editors, installs (MCWorkspaceFiles)
TaskGraph           task graphs and layers of options, as operators
CronTimes           cron expressions and next_after, as operators
  Definitions       a workflow or a session from its definition on; uses both
SkillPush           one skill in the bucket: pushes, sync, console
    MCSetup           Definitions and SkillPush side by side for TLC
SessionDocProofs    facts about the transactions
  SessionRunProofs      types, lease, journal, no prompt forgotten, swallowed or repeated
  WorkflowRunProofs     types, order, single start, refinement, what becomes of a launch
SessionBranchesProofs   types, the tree, conversations and what they remember
SetupProofs             Definitions and SkillPush
WorkflowScheduleProofs, ApprovalGateProofs, WorkspaceFilesProofs
```

Definitions whose comment begins with "Mutant" are plausible bugs. Nothing uses them; put in
the place of the definition that follows them they must break the property named with them in
`PROJECT.json`. `Faults` says in each module which troubles an instance allows; a property that
needs some trouble absent is checked, and proved, under exactly that assumption.

### SessionDoc and SessionRun

A document is a record with the fields the guards read. Each Firestore transaction is an
operator from documents to documents, so that whoever applies it does so in one step, which is
what the transaction guarantees. Time is relative: `lease_left` and `start_left` count down,
cut off at 0, where every predicate of the code stops telling values apart.

SessionRun has one action per call of the store, with the code up to the next `await`. `pc[r]`
is where execution `r` is in `run()`:

* `Claim`, `Recover`, `Hello`, `Setup`: `claim_session`, `_recover_cursor`, the first record,
  the setup that may fail;
* `LoopTop`, `Peek`, `IdlePoll`, `IdleLapse`, `JournalPrompt`, `Consume`, `Turn`, `Flush`: the
  inbox loop, with the places where `lost` is and is not looked at;
* `Tail`, `Bye`, `Release`, `Handoff...`: the shutdown, the release and `_handoff_queued`;
* `FailRecord`, `FailRelease`: `fail_fast`;
* `Beat`: the heartbeat, beside any of the above;
* `Push`, `SenderRead`, `SenderTrigger`, `SenderMark`: `send_prompt` and `ensure_running`, the
  trigger strictly before the mark;
* `Kill`, `DeleteCheck`, `Delete`: the console, the look and the delete apart;
* `Crash`, `StoreError`, `ReleaseReplyLost`, `SenderTriggerFails`, `Tick`: the environment.

### WorkflowRun and WorkflowPromise

Workers are the launcher, the ticks and, named by its task, the runner of each task's session.
All of them run the same `_advance`: `Commit` is the whole transaction (record, skip the cone,
claim what is ready, close), then `NextClaimed`, `Lookup`, `Create`, `Push`, `Ensure`,
`Trigger`, `Starting`, `Mark` are `_start_task` call by call, `LaunchError`, `Failing` and `Fail`
its error path and `_fail_launch`. `TickStart` is the one read of `reconcile`, `Relaunch`,
`Inspect` and `LastAdvance` what it does with it. Session ids are the task's own name, since
each claim has one pre-assigned id. The executions of a task's session are SessionRun's seen
from outside: one claims, and later it releases with a stop reason (`ExecFinish`) or is gone
(`ExecGone`). The runner of a task is one worker: a second execution of the same session
finishes only after the first has advanced the run. Results of tasks, rendered prompts, error
texts and prompts a user sends into a task's session by hand are left out.

`WorkflowPromise` knows how far each task is and the verdict, nothing of who moves them. A task
that is launching or running in the run document is active there.

### WorkflowSchedule

`wf` is the workflow document, `runs` the runs it ever had, in flight or closed. A tick takes
its listing (`TickList`), checks what is due on it, and then parks, claims the slot
(`ClaimSlot`, the one transaction), looks for an active run, skips or launches (`Look`, `Skip`,
`CreateRun`, `RegisterRun`), each a call of its own on a document that `RunNow`'s callers and the
editors change meanwhile. The edits are `create`, `update`, pause and resume, and `delete`, from
the console or the command line; `update` and resume compute a slot before they write it.
A definition is a model value with a table of next times (`NextAfter`); `Crash` ends a launcher
anywhere.

### ApprovalGate

`InputOf` lists the calls of a session in the order they begin; calls with one input share one
approval document (`call_hash`). `HookStart` to `HookRow` is the hook, with the kill switch read
before the audit row; `RequestApproval`, `NoteRequest`, `Poll`, `Decided`, `KillCheck`, `Expire`
and `NoteTimeout` are `can_use_tool` call by call. `Answer` and `RelayApprovals` write without a
look at what is there, as `decide_approval` does; a decider works from a list it has read
earlier (`view`). `granted` remembers which calls somebody allowed since they asked.

### SessionBranches

`journal` is every record that landed, with branch, seq and parent; `memory` what each
conversation of the harness holds. A client attaches, rewinds (`Rewind` is `create_branch`'s
transaction, `RecordBranch` the first record, later) and streams; a run claims, recovers its
cursor from the journal, picks the conversation and whether to fork it (`Setup`), and appends
from two places under one lock, the loop and the gate's hook (`Mint`, then `Written` or
`NotWritten`). `RunLog` is the audit row with its insert id. The lease is only its holder here.

### WorkspaceFiles

`doc` is the workspace document with its lease, `blob` and `tagged` the directory in the bucket,
`copy[s]` what the run of `s` works on. A run claims, restores, works, publishes artifact spaces
after each turn, and at its end lists the metadata, uploads file by file, detaches the heartbeat
and releases. A call of it may raise anywhere (`Fails`): the handler detaches and releases
(`FailRelease`) unless the lease is lost, and may raise itself. A beat renews the session's lease
and re-claims the workspace in two steps (`BeatRenew`, `BeatClaim`); a refusal of either sets `lost`
and ends the beats. `Kill` makes the next `BeatRenew` be refused. From then on nobody renews the
workspace's lease and it may run out (`Lapse`) wherever the run is: `GoIdle` is the last place where a run that meets no error
looks at `lost`, and it then returns without a release. `stray` remembers which files a run wrote
after it was told to stop. The person at the console looks
at the lease (`AskToEdit`) and writes in a later step; the command line writes CLAUDE.md and
deletes the document without a look (`WriteClaudeMd`, `DropDocument`). An install reads what is
present, writes the document, lists, looks at the lease and writes the files, and may die
anywhere. That somebody gets in between a look and the write that follows it
is a fault (`slow_edit`, `slow_install`, `slow_beat`): the code has no answer to it. Each session has one
run here: a successor of the same session takes over its lease, as `store.py:752-757` means it to, and what
keeps the two runs of a session apart is the session's lease, the subject of SessionRun.

### TaskGraph, CronTimes, Definitions

Operators that follow the code: the fixpoint of `dependency_closure` is a recursive function over
rounds, `Merge` and `Resolve` keep the three options that can conflict (workspace, connectors, MCP
servers), `NextAfter` searches days, hours and minutes in the code's order in a calendar of any
shape whose clock jumps once. Definitions puts them to work: somebody saves a workflow or starts
a session (`Create`, `ConsoleSession`, `ClientSession`), agents, workspaces and settings are
edited, tasks start with the options resolved at that moment, slots come. The properties do not
use the operators they are about: `RunsThrough` runs the tasks, `SlotIsNext` says when an
expression fires from the instant, minute by minute.

### SkillPush

Each push has a directory in which every name has a shape: plain, a link, too big, ignored,
badly named, in other case, below a linked directory, absent. `Walk`, `Upload`, `Uploaded` (with
its check of SKILL.md), `Prune`, `Pruned`, object by object; beside it the sync from the console or
the command line and the console's single-file writes and deletes. `blame` remembers who removed a
file last.

## 3. What the runs check

Bounds are in the cfg files; every constant that is only a bound is called so in its module.

| Run | Instance | Shows |
|---|---|---|
| `SessionRun_handoff` | 2 prompts, 3 executions, kill and delete, fair | `NoStrandedPrompt`: a queued prompt always has somebody who has yet to look; `PromptJournaledOnce`; `PromptsServed` |
| `SessionRun_lease` | 2 prompts, 3 executions, crashes, store errors, kill | `OneWriter`, `SeqsUnique`, `LiveLeaseIsRunning`, `OnlyOwnerDropsLease` |
| `SessionRun_faults` | 1 prompt, 2 executions, every fault, fair | `ConsumedWasJournaled`, `LeaseAlwaysLapses` |
| `WorkflowRun_join` | a and b before c, one tick; slow launchers, late executions, lost replies | `LaunchedOnce`, `PromptedInOrder`, `ClaimedAtOnce` and the refinement `KeepsPromise` |
| `WorkflowRun_timely` | a before b, one tick, launch errors, lost replies, deaths, kill, one crash | `NoWorkOnFailed`, `SuccessIsRecorded` |
| `WorkflowRun_live` | a before b, one tick, launch errors, deaths, one crash, fair | `RunSettles` |
| `WorkflowRun_success` | one task, no faults: violation | `FinishedTaskSucceeds` |
| `WorkflowSchedule_slots` | two ticks, a caller, an editor, three definitions, 1 edit, 1 crash, launches that raise, fair | `SlotOnce`, `FiresAsDefined`, `DocKnowsRuns`, `DueIsConsumed` |
| `ApprovalGate_answers` | three calls, two of them the same, a person, a relaying client, kill, death, fair | `AllowedByPerson`, `TranscriptAgrees`, `NothingLingers`, `OnlyOwnDeadline`, `AllAnswered` |
| `SessionBranches_tree` | 3 clients, 3 executions, 2 rewinds, 1 failure or record that does not land | `TreeIsSound`, `OwnConversation`, `RemembersLineage`, `AnswerIsFresh`, `RunLogIdsDistinct` |
| `WorkspaceFiles_shared` | 2 sessions, 2 files, 1 edit, 2 installs (one forced), a few at a time (below); kills, deaths, errors anywhere, failing connectors, fair beats and time | `OneInWorkspace`, `EditsStay`, `TagsStay`, `DoneHoldsNothing`, `InstallIsWhole`, `KillFrees` |
| `Setup_defined` | all graphs of 3 tasks, 3-task shapes that share a workspace, 144 expressions, 24 of them also in two zones whose clocks jump, console and client sessions; 2 pushes of 2 files | `RunsThrough`, `LaunchesAsChecked`, `SlotIsNext`, `PushKeepsSkill` |

`Setup_defined` runs two parts that share nothing in one model; a behaviour has something to do in
one of them only. `WorkspaceFiles_shared` confines a behaviour to a few actors at a time (`Few` of
MCWorkspaceFiles): both runs and the person at one file, or one run and the person at two, or one run and
the installs. Every behaviour of these is one of the module's own `FairSpec`: the beats and the lapse, which
have to go on, stay within `Few`.

**Why the bounds are enough.** A stranded prompt needs one prompt served and one that arrives in
the tail: two. Two executions can only conflict with each other, a third is the successor
that finds what they left. `LeaseTTL = 2` lets a lease be renewed before it lapses, with
a step of the clock on either side. Two tasks show order, a join is the smallest graph in which
two runners race for one claim; the launcher and a tick are the two who can meet under one
session id. One crash suffices to leave work half done, which the sweep must then find. Two
ticks overlap, and two units of time give a slot, its successor and an old listing of either. A
call, its twin and a stranger are what a hash can confuse. A rewind and a rewind of that, with a
third run to continue, is the smallest tree in which a branch's base is not on main; the third
client streams while the other two rewind and prompt. Two runs conflict over a workspace, and one edit
of one file suffices to be lost; a rename, and a preset with a file of somebody else's beside it, need two. Three tasks are a chain, a fork and a join, and a cycle longer than
a loop; a calendar of two months with weeks of three days has every way in which the two day
fields meet, and its jumps fall inside and across the hours of a day. The theorems of section 5 need none of these bounds.

`WorkflowRun_join` treats a and b as symmetric (the graph, the faults and the properties do not tell
them apart), `Setup_defined` the two pushers.

**Checking deadlock** is off everywhere: a session whose prompts are served, a run that is
closed, a call that was answered and a push that is done have nothing left to do.

**Fairness.** `SessionRun!FairSpec` asks that the steps of live executions, heartbeats and senders
go on and that time passes, and, strongly, that an idle poll reaches its timeout although
`_wait_for_messages` goes on polling until then (it adds up what it waited); executions may still crash, since crash steps are never forced and
never forbidden. `WorkflowRun!FairSpec` asks that workers which live go on (asyncio does not
starve them), that ticks recur (Cloud Scheduler, every minute, `src/infra/variables.tf`), that
executions come up and that turns end (the job has a timeout) and that windows lapse; its strong
fairness on `Lookup` says that whatever makes launches raise does not do so for good, without which
`RunSettles` is false (section 4). `WorkflowSchedule!FairSpec` asks that ticks recur and go
on, `ApprovalGate!FairSpec` that the execution goes on and time passes; nobody has to answer.
`WorkspaceFiles!FairSpec` asks that the event loop gets to the beats and that a lease nobody renews runs out;
it asks nothing of the runs, since a tool call may hang for as long as the job may run. No
fairness is assumed of operators, clients, faults or crashes.

**Timing assumptions.** Under `stall` off, a heartbeat gets through before the ttl is over
(`env.py:130-143` bounds the interval). Under `slow_launch` off, a launcher needs less than
START_GRACE for one task; under `slow_start` off, an execution claims within START_GRACE of its
trigger, the interval between the tick that marks a relaunched task and one that
inspects it included; under `late_mark` off, mark_starting lands before the execution it
announces has released. Under `stall` off in WorkspaceFiles the workspace's lease
does not lapse while its holder beats. Under `slow_edit` off (WorkflowSchedule) the clock does not pass a slot
between its computation and its write; (WorkspaceFiles) no run claims between an editor's look
and write. Each is a fault of its own, so the properties say which they need.

## 4. Where the code and its documents disagree

One has a run of its own, `WorkflowRun_success`: `advance` reads success off the stop reason
`end_turn` (`workflows.py:564`); the runner writes the harness's subtype, which is `success`
(`runner.py:537`, `src/tests/test_runner.py:159`). A task that ended well is recorded as failed.

The following come back as counterexamples when the named fault or assumption is changed in the
instance; the properties checked say where they stop.

Sessions.

* `TerminatedForGood` (in `SessionRun`, no run): a release in the tail writes idle over a terminate
  (`store.py:483`), while `client.py:82` says "End the session for good"; only `disabled` stays.
* `OneWriter`, `SeqsUnique`, `OnlyOwnerDropsLease`, `LiveLeaseIsRunning` with `stall`: `release_session` and
  `renew_lease` do not compare what they would need to (`store.py:483`, `store.py:465`).
* The console's delete may hit a session an execution has just claimed (`console/api.py:349`).
* `OwnConversation` with `rewind_to_start`: a rewind to before the first turn stores no
  conversation, and `runner.py:474-476` then resumes the session's latest one unforked, against
  `runner.py:463-470` and `src/README.md:79-81`. `early_end` (the first run of a branch ends
  before a flush), `rewind_to_error` and `early_claim` lead to the same or to a branch whose first
  record is not its own. `lost_flush` makes a branch forget a turn it shows.

Workflows.

* `RunSettles` without the strong fairness on `Lookup`: a launch that raises after its session was
  created is retried by every tick; when the cause lasts, a deleted agent say, the run never
  closes and blocks the schedule, while `workflows.py:758-759` says "the reconcile pass settles it
  either way".
* `NoWorkOnFailed` with `slow_launch` or `lookup_error`: a session that was created and not yet
  triggered looks lost to the tick. The same with `slow_start`, and with two ticks at once:
  the launch of one raises and finds no session, the other creates and triggers it, and then
  the first writes the task off while its execution boots (`workflows.py`, `_fail_launch`, whose look at the
  session and transaction on the run are two calls). `SuccessIsRecorded` with `late_mark`:
  starting overwrites the idle of a release.
* A launcher that dies between creating a run and writing `last_run_id` (`workflows.py:535`)
  leaves one no tick looks at; one that dies after `claim_slot` has spent the slot.
* `SlotOnce` with `slow_edit`: an update writes the slot it computed although the tick has
  consumed it meanwhile. `FiresAsDefined` with `overlapping_edits`: a resume brings back the slot of
  the definition an update just replaced.
* `DocKnowsRuns` holds while `clean`: two launchers that both read the document before the other
  registered leave a run only one of which is known, as the comment at `workflows.py:469-472` says.
* Parking writes `enabled = False` from the old listing over whatever the workflow is by then, and
  an error in the handler of an error (the workflow is gone) ends the whole sweep, though "one
  bad workflow must not end the tick".

Definitions.

* `agents.resolve` says a stored layer that names a workspace is ignored; the code uses it when
  nothing else names one (`agents.py:161-170`). A workspace named by the settings makes parallel
  tasks clash. `LaunchesAsChecked` therefore speaks of definitions with nothing stored changed and
  no workspace in the settings; the comment at `workflows.py:263-265` leaves the settings out on purpose.
* Options are validated before they are resolved, in a workflow's launch and in `connect`; only
  the console validates what it resolved. A connector of a stored layer and an MCP server of the
  same name then drop one of the two silently, which `options.py` rejects "up front".
* `SlotIsNext` in a zone that jumps forward by two hours, off the hour, or in the last hour of a day
  (`JumpsByTheHour`): `next_after` goes through the walls of a day in their order, and a time that is
  passed over is then not in the order of instants; a slot is skipped. Lord Howe's half hour is such a jump.
  `SlotAhead` holds in any zone. `*/1` counts as a restricted field.

Gate, workspaces, skills.

* `gate.py:4-6` says audit, then kill check; the code reads the kill switch first
  (`gate.py:80-93`), so a call may be audited as allowed and run after a kill.
* `OnlyOwnDeadline` with `parallel_twins`: a call made while its twin waits takes over the twin's
  document, and the deadline of one refuses the other.
* `DoneHoldsNothing` with `slow_beat` or `beat_in_tail`: a beat under way at the release, or after
  a connector failed (that path, `runner.py:437-448`, releases without detaching), keeps siblings out for a ttl.
* A run that lost its lease, to a kill above all, returns without releasing the workspace
  (`runner.py:555-559`), and one whose handler raises ends with it: both leave siblings out
  until it lapses, so `DoneHoldsNothing` speaks of runs that ended with their lease, and `KillFrees` of the
  others.
* `StopsForOwner` (in `WorkspaceFiles`, no run) is false without any fault: the heartbeat's docstring
  (`runner.py:203-204`) has the lost flag set "so the run stops instead of writing over the new owner", but the
  run looks at it for the last time before the checkpoint (`runner.py:555`). Killed during the upload, it
  goes on: its beats have stopped, the lease lapses (the comment at `runner.py:361-364` says that these
  phases can outlive one), a sibling claims and restores, and files of the killed run land in the directory
  the sibling now owns.
* Likewise for a long tool call. `OneInWorkspace` therefore says that there is nobody beside a run but runs that
  were told to stop, `EditsStay` and `TagsStay` that nothing is lost but to what such runs wrote (`stray`);
  none holds without its exception. All three fail with `stall`: the run has not been told.
* `EditsStay` with `slow_edit` or `cli_edit`: the run's checkpoint writes its old copy over the
  edit. `write_claude_md` says the file "takes effect on the next run"; a live run undoes it.
* `OneInWorkspace` with `cli_drop`: `workspaces delete` frees the lease under a live run.
* A file saved in the console loses its tags, and a space mounted read-write by two sessions gets
  the older copy back from the one that publishes last; neither is part of a property.
* `InstallIsWhole` with `slow_install`: a file kept because it was there is deleted before the
  install ends (with two files in the preset).
* `PushKeepsSkill` with the shape `below_link`: the walk does not see files below a linked
  directory, and `--replace` prunes them. A 404 during the prune is reported as an upload that
  failed with nothing pruned (`cli.py:555-558`); an upload cut short leaves part of a skill.

## 5. What is proved

All by TLAPS, for any number of prompts, executions, tasks, ticks, calls, deciders, sessions, files,
edits, pushes and crashes and any durations, from the assumptions on the constants in each module.

* `SessionRunProofs`. `TypeCorrect` needs nothing. `ExclusiveExecution` (`OneWriter`),
  `JournalNeverForks` (`SeqsUnique`), `LiveShowsRunning` (`LiveLeaseIsRunning`) and the action property
  `NobodyElseDropsLease` (`OnlyOwnerDropsLease`) assume `LeaseKept`: no `stall`, no `lost_reply`. None is
  inductive alone. The argument is `LeaseInv`: an execution between claim and release is the one the document names
  (`HolderIsNamed`), its lease runs unless it knows better (`HolderIsLive`), which only the death
  of the session teaches it (`LostIsDead`), executions outside are not named
  (`OthersAreNotNamed`), and a recovered cursor is at the head (`CursorAtHead`).
  `NoLostWakeup` (`NoStrandedPrompt`) assumes `OnlyOperator`. `HandoffInv` adds to the property
  that a live lease has an execution behind it which will look again, and that the paths on which
  one leaves without a look are those of dead sessions. `NothingSwallowed`
  (`ConsumedWasJournaled`) needs nothing: whoever is about to consume a prompt has journaled
  it. `NoneRepeated` (`PromptJournaledOnce`) assumes `NoneDies`, the lease kept and no death or error
  of the store between a prompt's record and its consumption: the model's `crash` in that
  gap journals a prompt again, as the code's restart does. `OnceInv` joins `LeaseInv` with the
  inbox: a queued prompt is not in the journal yet, but for the one that the only
  writer is consuming, nor is what that writer has still to come to.
* `WorkflowRunProofs`, under all faults. `OrderInv`: whatever a worker holds, and whatever session
  works, was claimed (`HeldHasBegun`, `LiveHasBegun`); what was claimed has dependencies that
  succeeded (`BegunInOrder`); a closed run has no open task (`ClosedIsOver`). `StepMoves` then
  classifies what any step does to a task, and from it follow `PromptsInOrder`
  (`PromptedInOrder`), and `PromiseKept` (`KeepsPromise`), the refinement of
  `WorkflowPromise`. `SkipConeIsGrounded` shows that the least set defined for `_propagate_skips`
  holds only tasks below a failure. `SingleStart` (`LaunchedOnce`) rests on `StartInv`: at most
  one worker is about to push a task's prompt, and it created the session.
  `NothingLeftUnclaimed` is `ClaimedAtOnce`. `WrittenOffIsIdle` (`NoWorkOnFailed`) and
  `SuccessStands` (`SuccessIsRecorded`) assume `Timely`: nobody outlives a window meant for
  it, every look at a session gets an answer, and one tick is through before the next begins
  (each is needed, section 4). `TimelyInv`: a launch is in one hand (`OneHolder`); until its session stands and
  whoever created it is done or gone, nothing can have become of a task (`NothingYet`); what runs
  has its lease and what stopped has stopped for good (`StopStands`); and whatever somebody has
  found to have failed stays lost until it is recorded (`FailedIsLost`). `SessionMoves` classifies
  what a step does to a session, `NewlyWrittenOff` who may find a task lost.
* `SessionBranchesProofs`. `TypeCorrect` needs nothing; its invariant says that every pointer is to something
  earlier. `TreeSound` (`TreeIsSound`), `AnswersAreFresh` (`AnswerIsFresh`) and `RowsDistinct` (`RunLogIdsDistinct`)
  assume `NoEarlyClaim`: no run claims a rewound branch between the two writes of
  `branch_from_event`. `TreeInv` ties the head, the cursors of the live run and of its writers, and
  what clients have under way to the end of their branch; `FreshInv` and `LoggedInv` add what
  the stream's cursor and the run log have behind them. `ConversationsOwned` (`OwnConversation`) assumes
  `OrderlyRewinds`: no rewind to the start or to a failed run, first runs that reach a flush.
  `OwnInv` gives every conversation one branch, but for main's, which is the session's.
  `LineageRemembered` (`RemembersLineage`) assumes `FlushedTurns`, no `lost_flush` either: every
  conversation holds the turns before its row (`RecallInv`). Lineage and turn base are recursive
  functions over the journal; the proof never computes them: that each satisfies its
  equation for the journal so far, and is the only one that does, is part of the invariant, and a new record adds
  one value. Section 4 says what the code does when an assumption fails.
* `WorkflowScheduleProofs`. `SlotsGivenOnce` (`SlotOnce`) and `FiresTheDefinition`
  (`FiresAsDefined`) assume `SafeEdits`: no `slow_edit`, no `overlapping_edits`. `SlotInv`: every
  slot taken lies before the document's (`ClaimedBefore`), an edit in progress is the only one and its slot is
  ahead (`OneEditor`, `PlansAhead`), the document's slot is one of its definition's
  (`SlotOfItsOwn`), and a tick holding a due slot finds the document as listed or past it
  (`ListedDue`). `DocumentKnowsRuns` (`DocKnowsRuns`) needs nothing: `RunsKnown` adds that a launcher not
  yet outdated sees the document as it is and found no run under way.
* `ApprovalGateProofs`. `OnlyAllowedRun` (`AllowedByPerson`) follows from `AnswersAreOwn`: an allow a
  waiting call can read was given since it asked. `TranscriptTrue` (`TranscriptAgrees`) from
  `JournalFollows`: at each station the rows so far are those of that station. Both under every fault.
  `QueueIsTrue` (`NothingLingers`) and `DeadlineIsOwn` (`OnlyOwnDeadline`) assume no `parallel_twins`:
  then a waiting call's record is its own (`OwnRecords`).
* `WorkspaceFilesProofs`. `OneAtATime` (`OneInWorkspace`) assumes `Heeded` (no `slow_edit`, no
  `cli_drop`, no `stall`): `LeaseInv` says that a run between claim and release that has not been told to
  stop holds the live lease (`HoldsLease`), that no such run is at work while an editor who looked has
  yet to write (`QuietWhileLooked`), and that a run told to stop has no beat under way (`BeatOrLost`). `EditsAreSafe` (`EditsStay`) and `TagsAreKept` (`TagsStay`) assume `Guarded`, `cli_edit` off
  as well: nothing changes under the copy of a run that has not been told to stop (`EditInv`), what a checkpoint has
  left to upload is in its copy (`KeepInv`), and what it read of the tags is still true of those files, but
  for the ones a stopped run wrote (`TagInv`). Kills, deaths and errors may come anywhere in all three. `NothingHeldAfter`
  (`DoneHoldsNothing`) assumes only `PromptBeats` (no `slow_beat`, no `beat_in_tail`), `InstalledWhole`
  (`InstallIsWhole`) only `SteadyInstall` (no `slow_install`), and neither needs the lease to last.
* `SetupProofs`, about definitions. `DefinitionRunsThrough` (`RunsThrough`) needs nothing. `ClosureIs` says
  what the rounds of `dependency_closure` leave when no cycle remains: each task's closure is
  what it names and the closures of that, and in any set of tasks one depends on none of
  them. It is an induction over the rounds; since no installed prover takes an induction scheme,
  it is done as an argument about the least number of a set (`LeastNat`, `NatSetInduction`). `FlowInv`
  then carries it through the run: all that is upstream of a started task has succeeded, all
  that is downstream of a failed one has failed; of the tasks left, one depends on none of them
  and can go on. `WhatWasCheckedIsLaunched` (`LaunchesAsChecked`) rests on `LaunchInv`: as long as
  nothing stored has changed, a live task has the options that were checked (an agent created
  meanwhile cannot be one that was found there).
* `SetupProofs`, about slots, with `SlotInv`: the slot is what `next_after` gave for the last tick. `NeverBackwards`
  (`SlotAhead`) needs nothing; `NoSlotSkipped` (`SlotIsNext`) assumes `JumpsByTheHour`. `HourAndMinute` and
  `WallsAreShown` relate a minute's number to its day, hour and minute for any calendar, `FiringTimes` an
  instant to the wall, `NotBeforeToday` and `PassedOverAlike` say where a jump matters.
* `SetupProofs`, about skills. `SkillIsKept` (`PushKeepsSkill`) assumes no shape `below_link`. Inductive with
  it: what a push has yet to prune is neither SKILL.md nor carried, a push past its upload had a SKILL.md, and
  a file it uploaded that is missing is somebody else's doing.

Each of these modules also proves the type invariant of its module, which the runs therefore
leave out. Only model-checked: the liveness
properties (`PromptsServed`, `LeaseAlwaysLapses`, `RunSettles`, `DueIsConsumed`, `AllAnswered`, `KillFrees`), which
the prover does not reach.

## 6. Not modelled

* Texts and layout: rendered prompts, titles, printed output, the fields of options no guard
  reads, the parsing of arguments and of month and weekday names.
* Reads: listings, previews, archives, the poll of the console, the analytics. The description cache of
  `console/objects.py` is shared by threads that may delete one entry twice (`console/objects.py:146`);
  it holds nothing that is written anywhere.
* Exchanges with other services without state here: connector credentials and their refresh, the
  export to BigQuery, which replaces whole tables.
* Inside a turn: the stream of the harness, interrupts, the sandbox and its home directory.
* Presets of agents and workflows (one document each, created as by hand), the presets' contents,
  artifacts deleted or uploaded one by one in the console.
* The front end, which polls the API and draws, and Terraform.
