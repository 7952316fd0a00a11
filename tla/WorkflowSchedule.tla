---------------------------- MODULE WorkflowSchedule ----------------------------
(***************************************************************************)
(* When a workflow fires (src/src/syros/workflows.py): the ticks of the    *)
(* scheduler, the people who fire it by hand and those who edit it, all on *)
(* one workflow document that only claim_slot looks at in a transaction.   *)
(* A tick works on a listing it took before it went through every other    *)
(* workflow, so what it knows of the document may be as old as its sweep;  *)
(* everybody else reads, awaits and writes.  What a run does once it is    *)
(* registered is WorkflowRun; here it is in flight until it closes.        *)
(*                                                                         *)
(* Time is counted in units no cron expression tells apart.                *)
(***************************************************************************)
EXTENDS Integers, Sequences, FiniteSets

CONSTANTS Defs,       \* definitions: tasks, options, cron and timezone
          NextAfter,  \* cron.next_after of each definition at each time
          Ticks,      \* the sweeps of the scheduler that may overlap
          Callers,    \* those who fire it by hand, once each
          Operators,  \* those who edit it
          MaxTime,    \* bound: the clock
          MaxEdits,   \* bound: how often it is edited
          MaxCrashes, \* bound: how many launchers die under way
          Faults

FaultKinds ==
  {"launch_error",      \* create_run raises
   "slow_edit",         \* the clock moves between an edit's slot and its write
   "overlapping_edits"} \* two edits of one workflow at a time

Manual == 0      \* next_run_at of a definition without a cron
CronError == -1  \* next_after raises

Workers == Ticks \cup Callers \cup Operators
Firing == Ticks \cup Callers

ASSUME BoundAssumption == MaxTime \in Nat /\ MaxEdits \in Nat /\ MaxCrashes \in Nat
ASSUME CronAssumption ==
  /\ NextAfter \in [Defs -> [0..MaxTime -> Int]]
  /\ \A d \in Defs, t \in 0..MaxTime :
       NextAfter[d][t] \in {Manual, CronError} \/ NextAfter[d][t] > t
ASSUME DefAssumption == Defs # {}
ASSUME WorkerAssumption ==
  Ticks \cap Callers = {} /\ Ticks \cap Operators = {} /\ Callers \cap Operators = {}
ASSUME FaultAssumption == Faults \subseteq FaultKinds

VARIABLES
  wf,      \* the workflow document
  runs,    \* status of each run document, by the order of create_run
  clock,
  pc,      \* what each worker does next
  snap,    \* the document as each worker read it
  now,     \* the time each worker took for its own
  plan,    \* definition and slot each worker is about to write
  own,     \* the run each launcher created
  crashes, \* counters of the bounds
  edits,
  claimed, \* history: the slots claim_slot gave out
  stale,   \* history: who launches from a document older than a firing it lacks
  clean,   \* history: nobody did so, nor died, nor deleted under a launch
  counted  \* history: runs registered and slots skipped on this document

histVars == <<claimed, stale, clean, counted>>
vars == <<wf, runs, clock, pc, snap, now, plan, own, crashes, edits,
          claimed, stale, clean, counted>>

-----------------------------------------------------------------------------
RunStatuses == {"running", "closed", "gone"}
Stations == {"idle", "timed", "due", "claimed", "skip", "require", "look", "launch",
             "register", "create", "update", "resume", "drop", "aborted", "done"}
Docs == [exists : BOOLEAN, enabled : BOOLEAN, def : Defs, next : Nat,
         last_run : Nat, run_count : Nat, skip_count : Nat]

NoDoc == [exists |-> FALSE, enabled |-> FALSE, def |-> CHOOSE d \in Defs : TRUE,
          next |-> Manual, last_run |-> 0, run_count |-> 0, skip_count |-> 0]

NoPlan == [def |-> NoDoc.def, next |-> Manual]

(* _schedule, and the call of next_after in set_enabled and in the tick.   *)
NextSlot(d, t) == NextAfter[d][t]

(* build: the document of a new workflow.                                  *)
Built(d, next, enabled) ==
  [NoDoc EXCEPT !.exists = TRUE, !.enabled = enabled, !.def = d, !.next = next]

(* The due check of the tick, on its listing.                              *)
Due(doc, t) == doc.exists /\ doc.enabled /\ doc.next > 0 /\ doc.next <= t

(* claim_slot's transaction: may this due time be taken, and what it is    *)
(* moved to.                                                               *)
(* Mutants: whatever the slot is by now; the slot stays where it is.       *)
CanClaimSlotAnyway(due) == wf.exists /\ wf.enabled
CanClaimSlot(due) == wf.exists /\ wf.enabled /\ wf.next = due

SlotKept(following) == wf
SlotMoved(following) == [wf EXCEPT !.next = following]

(* active_run, given the workflow as it was read.                          *)
(* Mutant: no run is ever in the way.                                      *)
NeverActive(doc) == FALSE
ActiveRun(doc) == doc.last_run > 0 /\ runs[doc.last_run] = "running"

(* The fields of the document that launch writes.                          *)
Registered(doc, r) == [wf EXCEPT !.last_run = r, !.run_count = doc.run_count + 1]

(* An edit's write.                                                        *)
(* Mutant: the next slot stays where it is.                                *)
RedefinedInPlace(p) == [wf EXCEPT !.def = p.def]
Redefined(p) == [wf EXCEPT !.def = p.def, !.next = p.next]

Resumed(p) == [wf EXCEPT !.enabled = TRUE, !.next = IF p.next = Manual THEN @ ELSE p.next]

Goto(w, station) == pc' = [pc EXCEPT ![w] = station]

(* Where a worker goes when its call on a document that is gone raises: a  *)
(* tick answers the error of one workflow with another write to it, which  *)
(* raises too and ends the sweep.                                          *)
Raises(w) == Goto(w, IF w \in Ticks THEN "aborted" ELSE "done")

(* Back to the loop over the workflows, or out of the program.             *)
Ends(w) == Goto(w, IF w \in Ticks THEN "idle" ELSE "done")

(* Who read the document and has yet to write what it decided.             *)
Launching(w) == pc[w] \in {"due", "claimed", "skip", "look", "launch", "register"}
Outdated(w) == stale' = (stale \ {w}) \cup {v \in Firing \ {w} : Launching(v)}
Editing(w) == pc[w] \in {"create", "update", "resume", "drop"}
BeginsEdit(e) ==
  /\ pc[e] = "idle" /\ edits < MaxEdits
  /\ "overlapping_edits" \in Faults \/ \A o \in Operators \ {e} : ~Editing(o)
  /\ edits' = edits + 1

-----------------------------------------------------------------------------
Init ==
  /\ \/ wf = NoDoc
     \/ \E d \in Defs, enabled \in BOOLEAN :
          NextSlot(d, 0) # CronError /\ wf = Built(d, NextSlot(d, 0), enabled)
  /\ runs = <<>>
  /\ clock = 0
  /\ pc = [w \in Workers |-> IF w \in Callers THEN "require" ELSE "idle"]
  /\ snap = [w \in Firing |-> NoDoc]
  /\ now = [w \in Ticks |-> 0]
  /\ plan = [w \in Ticks \cup Operators |-> NoPlan]
  /\ own = [w \in Firing |-> 0]
  /\ crashes = 0
  /\ edits = 0
  /\ claimed = {}
  /\ stale = {}
  /\ clean = TRUE
  /\ counted = [runs |-> 0, skips |-> 0]

(* A launcher is through with the workflow.                                *)
Forget(w) ==
  /\ snap' = [snap EXCEPT ![w] = NoDoc]
  /\ own' = [own EXCEPT ![w] = 0]
  /\ now' = [t \in Ticks |-> IF t = w THEN 0 ELSE now[t]]
  /\ plan' = [v \in DOMAIN plan |-> IF v = w THEN NoPlan ELSE plan[v]]

Leaves(w) == Forget(w) /\ stale' = stale \ {w}

(* The sweep takes its time before it lists the workflows.                 *)
TickStart(w) ==
  /\ pc[w] \in {"idle", "aborted"}
  /\ now' = [now EXCEPT ![w] = clock]
  /\ Goto(w, "timed")
  /\ UNCHANGED <<wf, runs, clock, snap, plan, own, crashes, edits, histVars>>

(* The listing, this workflow's entry in it, and the due check on that.    *)
TickList(w) ==
  /\ pc[w] = "timed"
  /\ IF Due(wf, now[w])
     THEN /\ snap' = [snap EXCEPT ![w] = wf]
          /\ plan' = [plan EXCEPT ![w] = [def |-> wf.def, next |-> NextSlot(wf.def, now[w])]]
          /\ Goto(w, "due")
          /\ UNCHANGED <<now, own, stale>>
     ELSE Goto(w, "idle") /\ Leaves(w)
  /\ UNCHANGED <<wf, runs, clock, crashes, edits, claimed, clean, counted>>

(* An expression that gives no time any more parks the workflow.           *)
Park(w) ==
  /\ pc[w] = "due" /\ plan[w].next = CronError
  /\ IF wf.exists THEN wf' = [wf EXCEPT !.enabled = FALSE] /\ Goto(w, "idle")
     ELSE Raises(w) /\ UNCHANGED wf
  /\ Leaves(w)
  /\ UNCHANGED <<runs, clock, crashes, edits, claimed, clean, counted>>

ClaimSlot(w) ==
  /\ pc[w] = "due" /\ plan[w].next # CronError
  /\ IF CanClaimSlot(snap[w].next)
     THEN /\ wf' = SlotMoved(plan[w].next)
          /\ claimed' = claimed \cup {snap[w].next}
          /\ Goto(w, "claimed")
          /\ UNCHANGED <<snap, now, plan, own, stale>>
     ELSE Goto(w, "idle") /\ Leaves(w) /\ UNCHANGED <<wf, claimed>>
  /\ UNCHANGED <<runs, clock, crashes, edits, clean, counted>>

(* active_run before a launch: the tick's, and that of run_now.            *)
Look(w) ==
  /\ pc[w] \in {"claimed", "look"}
  /\ IF ActiveRun(snap[w]) /\ w \in Callers
     THEN Goto(w, "done") /\ Leaves(w)
     ELSE /\ Goto(w, IF ActiveRun(snap[w]) THEN "skip" ELSE "launch")
          /\ UNCHANGED <<snap, now, plan, own, stale>>
  /\ UNCHANGED <<wf, runs, clock, crashes, edits, claimed, clean, counted>>

Skip(w) ==
  /\ pc[w] = "skip"
  /\ IF wf.exists
     THEN /\ wf' = [wf EXCEPT !.skip_count = snap[w].skip_count + 1]
          /\ counted' = [counted EXCEPT !.skips = @ + 1]
          /\ clean' = (clean /\ w \notin stale)
          /\ Outdated(w)
          /\ Ends(w) /\ Forget(w)
     ELSE Raises(w) /\ Leaves(w) /\ UNCHANGED <<wf, counted, clean>>
  /\ UNCHANGED <<runs, clock, crashes, edits, claimed>>

CreateRun(w) ==
  /\ pc[w] = "launch"
  /\ runs' = Append(runs, "running")
  /\ own' = [own EXCEPT ![w] = Len(runs) + 1]
  /\ Goto(w, "register")
  /\ UNCHANGED <<wf, clock, snap, now, plan, crashes, edits, histVars>>

(* A launch that raises before its run exists; the tick writes last_error. *)
LaunchError(w) ==
  /\ pc[w] = "launch" /\ "launch_error" \in Faults
  /\ IF wf.exists THEN Ends(w) ELSE Raises(w)
  /\ Leaves(w)
  /\ UNCHANGED <<wf, runs, clock, crashes, edits, claimed, clean, counted>>

RegisterRun(w) ==
  /\ pc[w] = "register"
  /\ IF wf.exists
     THEN /\ wf' = Registered(snap[w], own[w])
          /\ counted' = [counted EXCEPT !.runs = @ + 1]
          /\ clean' = (clean /\ w \notin stale)
          /\ Outdated(w)
          /\ Ends(w) /\ Forget(w)
     ELSE Raises(w) /\ Leaves(w) /\ UNCHANGED <<wf, counted, clean>>
  /\ UNCHANGED <<runs, clock, crashes, edits, claimed>>

(* run_now reads the document; the console and the CLI check it is there.  *)
Require(c) ==
  /\ pc[c] = "require"
  /\ IF wf.exists THEN snap' = [snap EXCEPT ![c] = wf] /\ Goto(c, "look")
     ELSE Goto(c, "done") /\ UNCHANGED snap
  /\ UNCHANGED <<wf, runs, clock, now, plan, own, crashes, edits, histVars>>

(* The run closes: its last task released, or a tick repaired it.          *)
RunCloses(r) ==
  /\ runs[r] = "running"
  /\ runs' = [runs EXCEPT ![r] = "closed"]
  /\ UNCHANGED <<wf, clock, pc, snap, now, plan, own, crashes, edits, histVars>>

-----------------------------------------------------------------------------
(* Edits.  The slot is computed first, from the time of the call; the      *)
(* definition is then checked against agents and connectors, and written.  *)

Prepare(e, station, d) ==
  /\ BeginsEdit(e)
  /\ NextSlot(d, clock) # CronError
  /\ plan' = [plan EXCEPT ![e] = [def |-> d, next |-> NextSlot(d, clock)]]
  /\ Goto(e, station)
  /\ UNCHANGED <<wf, runs, clock, snap, now, own, crashes, histVars>>

Written(e, doc) ==
  /\ wf' = doc
  /\ Goto(e, "idle")
  /\ plan' = [plan EXCEPT ![e] = NoPlan]
  /\ UNCHANGED <<runs, clock, snap, now, own, crashes, claimed, stale, clean>>

Refused(e) ==
  /\ Goto(e, "idle")
  /\ plan' = [plan EXCEPT ![e] = NoPlan]
  /\ UNCHANGED <<wf, runs, clock, snap, now, own, crashes, edits, histVars>>

CreateStart(e) == ~wf.exists /\ \E d \in Defs : Prepare(e, "create", d)

(* create_workflow fails on a duplicate.                                   *)
Create(e) ==
  /\ pc[e] = "create"
  /\ \/ /\ ~wf.exists
        /\ \E enabled \in BOOLEAN : Written(e, Built(plan[e].def, plan[e].next, enabled))
        /\ counted' = [runs |-> 0, skips |-> 0]
        /\ UNCHANGED edits
     \/ wf.exists /\ Refused(e)

UpdateStart(e) == wf.exists /\ \E d \in Defs : Prepare(e, "update", d)

Update(e) ==
  /\ pc[e] = "update"
  /\ \/ wf.exists /\ Written(e, Redefined(plan[e])) /\ UNCHANGED <<edits, counted>>
     \/ ~wf.exists /\ Refused(e)

Pause(e) ==
  /\ BeginsEdit(e) /\ wf.exists
  /\ Written(e, [wf EXCEPT !.enabled = FALSE])
  /\ UNCHANGED counted

(* set_enabled reads the document for its cron.                            *)
ResumeStart(e) == wf.exists /\ Prepare(e, "resume", wf.def)

Resume(e) ==
  /\ pc[e] = "resume"
  /\ \/ wf.exists /\ Written(e, Resumed(plan[e])) /\ UNCHANGED <<edits, counted>>
     \/ ~wf.exists /\ Refused(e)

(* delete_workflow drains the runs, then drops the document.               *)
DrainRuns(e) ==
  /\ BeginsEdit(e) /\ wf.exists
  /\ runs' = [r \in DOMAIN runs |-> "gone"]
  /\ Goto(e, "drop")
  /\ UNCHANGED <<wf, clock, snap, now, plan, own, crashes, histVars>>

Drop(e) ==
  /\ pc[e] = "drop"
  /\ wf' = NoDoc
  /\ clean' = (clean /\ ~(\E w \in Firing : Launching(w)) /\ \A r \in DOMAIN runs : runs[r] = "gone")
  /\ Goto(e, "idle")
  /\ UNCHANGED <<runs, clock, snap, now, plan, own, crashes, edits, claimed, stale, counted>>

-----------------------------------------------------------------------------
(* A launcher dies.                                                        *)
Crash(w) ==
  /\ crashes < MaxCrashes /\ Launching(w)
  /\ crashes' = crashes + 1
  /\ clean' = (clean /\ pc[w] # "register")
  /\ Ends(w)
  /\ Leaves(w)
  /\ UNCHANGED <<wf, runs, clock, edits, claimed, counted>>

Advance ==
  /\ clock < MaxTime
  /\ "slow_edit" \in Faults \/ \A e \in Operators : ~Editing(e)
  /\ clock' = clock + 1
  /\ UNCHANGED <<wf, runs, pc, snap, now, plan, own, crashes, edits, histVars>>

Launch(w) == Look(w) \/ CreateRun(w) \/ LaunchError(w) \/ RegisterRun(w)
Tick(w) == TickStart(w) \/ TickList(w) \/ Park(w) \/ ClaimSlot(w) \/ Skip(w) \/ Launch(w)
RunNow(c) == Require(c) \/ Launch(c)
(* The console edits a definition in place; the CLI has no such command.   *)
CommandLine(e) ==
  \/ CreateStart(e) \/ Create(e) \/ Pause(e) \/ ResumeStart(e) \/ Resume(e)
  \/ DrainRuns(e) \/ Drop(e)
Console(e) == CommandLine(e) \/ UpdateStart(e) \/ Update(e)

Next ==
  \/ \E w \in Ticks : Tick(w)
  \/ \E c \in Callers : RunNow(c)
  \/ \E e \in Operators : Console(e)
  \/ \E r \in DOMAIN runs : RunCloses(r)
  \/ \E w \in Firing : Crash(w)
  \/ Advance

Spec == Init /\ [][Next]_vars

(* Cloud Scheduler calls the tick again and again, and each call proceeds. *)
FairSpec == Spec /\ \A w \in Ticks : WF_vars(Tick(w))

-----------------------------------------------------------------------------
TypeOK ==
  /\ wf \in Docs
  /\ runs \in Seq(RunStatuses)
  /\ clock \in 0..MaxTime
  /\ pc \in [Workers -> Stations]
  /\ snap \in [Firing -> Docs]
  /\ now \in [Ticks -> 0..MaxTime]
  /\ plan \in [Ticks \cup Operators -> [def : Defs, next : Int]]
  /\ \A e \in Operators : plan[e].next \in Nat
  /\ own \in [Firing -> Nat]
  /\ \A w \in Firing : snap[w].last_run <= Len(runs) /\ own[w] <= Len(runs)
  /\ wf.last_run <= Len(runs)
  /\ crashes \in 0..MaxCrashes
  /\ edits \in 0..MaxEdits
  /\ claimed \subseteq 0..MaxTime
  /\ stale \subseteq Firing
  /\ clean \in BOOLEAN
  /\ counted \in [runs : Nat, skips : Nat]

Claims(w) == pc[w] = "due" /\ pc'[w] = "claimed"

(* However the sweeps overlap and whoever pauses, resumes, edits, deletes  *)
(* or recreates the workflow meanwhile, no slot is given out twice, none   *)
(* before its time, and none is left that the sweep would still call due.  *)
SlotOnce ==
  [][\A w \in Ticks : Claims(w) =>
       /\ snap[w].next \notin claimed
       /\ snap[w].next <= now[w]
       /\ ~Due(wf', now[w])]_vars

(* A tick launches from a listing that may be old.  Still what it fires is *)
(* the definition the workflow has when the slot is taken, at a time that  *)
(* definition's own schedule names: every edit moves the slot.             *)
IsSlotOf(d, t) == \E s \in 0..MaxTime : NextSlot(d, s) = t

FiresAsDefined ==
  [][\A w \in Ticks : Claims(w) =>
       snap[w].def = wf.def /\ wf.enabled /\ IsSlotOf(wf.def, wf.next)]_vars

(* One run at a time, and the workflow knows it: a run in flight is the    *)
(* last one registered or is being registered, unless a launcher worked    *)
(* from a document older than another's registration, died before its own, *)
(* or the workflow was deleted under it.                                   *)
NoRunForgotten ==
  clean => \A r \in DOMAIN runs :
    runs[r] = "running" =>
      wf.last_run = r \/ \E w \in Firing : pc[w] = "register" /\ own[w] = r

(* Under the same condition the counters, written as what was read plus    *)
(* one, are the runs registered and the slots skipped.                     *)
CountsAreTrue ==
  clean /\ wf.exists => wf.run_count = counted.runs /\ wf.skip_count = counted.skips

DocKnowsRuns == NoRunForgotten /\ CountsAreTrue

(* A slot that is due is consumed, or the workflow is paused, edited or    *)
(* deleted: an overdue one does not stay so, whoever dies.                 *)
DueIsConsumed ==
  \A t \in 1..MaxTime : (Due(wf, clock) /\ wf.next = t) ~> ~(Due(wf, clock) /\ wf.next = t)

=============================================================================
