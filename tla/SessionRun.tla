------------------------------ MODULE SessionRun ------------------------------
(***************************************************************************)
(* One session from the first prompt to the last release: the clients that *)
(* queue prompts and trigger executions (remote.py), the sandbox           *)
(* executions that claim the session, journal and answer the prompts and   *)
(* release it (runner.py), their heartbeats, and the console's kill and    *)
(* delete (console/api.py), all working on one session document, one inbox *)
(* and one journal branch with no lock but the lease.                      *)
(*                                                                         *)
(* A step is one call of the store, with the code up to the next await.    *)
(***************************************************************************)
EXTENDS SessionDoc, FiniteSets

CONSTANTS MaxPrompts,     \* bound: prompts ever sent, numbered in arrival order
          MaxExecutions,  \* bound: executions ever triggered, likewise
          Faults          \* the kinds of trouble this instance allows

FaultKinds ==
  {"crash",          \* an execution dies: job timeout, OOM, eviction
   "stall",          \* heartbeats do not get through for a whole ttl
   "store_error",    \* a call of the store raises, its effect not applied
   "lost_reply",     \* release_session is applied, and raises all the same
   "trigger_error",  \* the job API refuses to run the job
   "setup_fail",     \* workspace_busy or connector_error
   "kill", "delete"} \* the operator's kill switch and delete button

ASSUME BoundAssumption == MaxPrompts \in Nat /\ MaxExecutions \in Nat
ASSUME FaultAssumption == Faults \subseteq FaultKinds

Prompts == 1..MaxPrompts
Executions == 1..MaxExecutions

VARIABLES
  session,    \* the session document
  pc,         \* what each execution does next
  lost,       \* the `lost` event of each execution
  cursor,     \* writer.seq of each execution
  batch,      \* the queued prompts each execution holds from its last peek
  inbox,      \* what became of each prompt in the inbox
  sender,     \* where the client that sends each prompt is in send_prompt
  deleter,    \* the console's delete: "none", "checked" or "done"
  head,       \* the highest seq in the journal branch
  forked,     \* history: some seq was given to two records
  journaled   \* history: how many prompt records each prompt has

docVars == <<session, deleter>>
runVars == <<pc, lost, cursor, batch>>
journalVars == <<head, forked, journaled>>
vars == <<session, pc, lost, cursor, batch, inbox, sender, deleter,
          head, forked, journaled>>

-----------------------------------------------------------------------------
(* The stations of an execution, in the order run() passes them.           *)

Starting   == {"recover", "hello"}          \* claimed, no heartbeat yet
Serving    == {"setup", "loop", "peek", "idle", "prompt", "consume",
               "turn", "flush", "tail", "bye", "release"}
Failing    == {"fail", "fail_result", "fail_release"}
HandingOff == {"handoff", "h_read", "h_trigger", "h_mark"}

Leased == Starting \cup Serving \cup Failing   \* claimed and not released
Beating == Serving \cup Failing \cup HandingOff
Stations == {"off", "boot", "done"} \cup Leased \cup HandingOff

Queue == {m \in Prompts : inbox[m] = "queued"}

(* The prompt at hand: the oldest of the batch.                            *)
Current(r, m) == m \in batch[r] /\ \A n \in batch[r] : m <= n

Goto(r, station) == pc' = [pc EXCEPT ![r] = station]

(* Where an exception leaves run(): nothing is written once the lease is   *)
(* known to be lost, otherwise the session fails fast.                     *)
Raise(r) == Goto(r, IF lost[r] THEN "done" ELSE "fail")

(* JournalWriter.append: the record gets the writer's own next seq.        *)
Append(r) ==
  /\ cursor' = [cursor EXCEPT ![r] = @ + 1]
  /\ head' = IF cursor[r] < head THEN head ELSE cursor[r] + 1
  /\ forked' = (forked \/ cursor[r] < head)

(* run_job: the next execution is on its way.                              *)
Fresh(q) == pc[q] = "off" /\ \A p \in Executions : p < q => pc[p] # "off"

-----------------------------------------------------------------------------
Init ==
  /\ session = NewSession
  /\ pc = [r \in Executions |-> "off"]
  /\ lost = [r \in Executions |-> FALSE]
  /\ cursor = [r \in Executions |-> 0]
  /\ batch = [r \in Executions |-> {}]
  /\ inbox = [m \in Prompts |-> "unsent"]
  /\ sender = [m \in Prompts |-> "idle"]
  /\ deleter = "none"
  /\ head = 0
  /\ forked = FALSE
  /\ journaled = [m \in Prompts |-> 0]

-----------------------------------------------------------------------------
(* send_prompt: push to the inbox, then ensure_running.                    *)

Push(m) ==
  /\ sender[m] = "idle"
  /\ \A n \in Prompts : n < m => sender[n] # "idle"
  /\ session.exists
  /\ inbox' = [inbox EXCEPT ![m] = "queued"]
  /\ sender' = [sender EXCEPT ![m] = "read"]
  /\ UNCHANGED <<docVars, runVars, journalVars>>

SenderRead(m) ==
  /\ sender[m] = "read"
  /\ sender' = [sender EXCEPT ![m] =
                  IF IsDead(session) \/ LeaseActive(session) THEN "done" ELSE "trigger"]
  /\ UNCHANGED <<docVars, runVars, inbox, journalVars>>

SenderTrigger(m) ==
  /\ sender[m] = "trigger"
  /\ \E q \in Executions : Fresh(q) /\ Goto(q, "boot")
  /\ sender' = [sender EXCEPT ![m] = "mark"]
  /\ UNCHANGED <<docVars, lost, cursor, batch, inbox, journalVars>>

SenderTriggerFails(m) ==
  /\ "trigger_error" \in Faults
  /\ sender[m] = "trigger"
  /\ sender' = [sender EXCEPT ![m] = "done"]
  /\ UNCHANGED <<docVars, runVars, inbox, journalVars>>

SenderMark(m) ==
  /\ sender[m] = "mark"
  /\ session' = MarkStarting(session)
  /\ sender' = [sender EXCEPT ![m] = "done"]
  /\ UNCHANGED <<runVars, inbox, deleter, journalVars>>

-----------------------------------------------------------------------------
(* run(): claim, recover the cursor from the journal, say hello.           *)

Claim(r) ==
  /\ pc[r] = "boot"
  /\ IF CanClaim(session, r)
     THEN session' = Claimed(session, r) /\ Goto(r, "recover")
     ELSE session' = session /\ Goto(r, "done")
  /\ UNCHANGED <<lost, cursor, batch, inbox, sender, deleter, journalVars>>

(* Mutant: the cursor is seeded from nothing instead of the journal.       *)
RecoverNothing(r) ==
  /\ pc[r] = "recover"
  /\ Goto(r, "hello")
  /\ UNCHANGED <<docVars, lost, cursor, batch, inbox, sender, journalVars>>

Recover(r) ==
  /\ pc[r] = "recover"
  /\ cursor' = [cursor EXCEPT ![r] = head]
  /\ Goto(r, "hello")
  /\ UNCHANGED <<docVars, lost, batch, inbox, sender, journalVars>>

Hello(r) ==
  /\ pc[r] = "hello"
  /\ Append(r)
  /\ Goto(r, "setup")
  /\ UNCHANGED <<docVars, lost, batch, inbox, sender, journaled>>

(* Workspace claim, connectors and restore; two of them can fail fast.     *)
Setup(r) ==
  /\ pc[r] = "setup"
  /\ \/ Goto(r, "loop")
     \/ "setup_fail" \in Faults /\ Goto(r, "fail")
  /\ UNCHANGED <<docVars, lost, cursor, batch, inbox, sender, journalVars>>

-----------------------------------------------------------------------------
(* The message loop.                                                       *)

LoopTop(r) ==
  /\ pc[r] = "loop"
  /\ Goto(r, IF lost[r] THEN "done" ELSE "peek")
  /\ UNCHANGED <<docVars, lost, cursor, batch, inbox, sender, journalVars>>

(* Mutant: the messages are consumed by the poll that finds them.          *)
PeekConsuming(r) ==
  /\ pc[r] = "peek"
  /\ batch' = [batch EXCEPT ![r] = Queue]
  /\ inbox' = [m \in Prompts |-> IF m \in Queue THEN "consumed" ELSE inbox[m]]
  /\ Goto(r, IF Queue = {} THEN "idle" ELSE "prompt")
  /\ UNCHANGED <<docVars, lost, cursor, sender, journalVars>>

Peek(r) ==
  /\ pc[r] = "peek"
  /\ batch' = [batch EXCEPT ![r] = Queue]
  /\ Goto(r, IF Queue = {} THEN "idle" ELSE "prompt")
  /\ UNCHANGED <<docVars, lost, cursor, inbox, sender, journalVars>>

(* Nothing queued: a dead session ends the wait, else poll again ...       *)
IdlePoll(r) ==
  /\ pc[r] = "idle"
  /\ Goto(r, IF IsDead(session) THEN "tail" ELSE "peek")
  /\ UNCHANGED <<docVars, lost, cursor, batch, inbox, sender, journalVars>>

(* ... until the idle window has lapsed.                                   *)
IdleLapse(r) ==
  /\ pc[r] = "idle"
  /\ Goto(r, "tail")
  /\ UNCHANGED <<docVars, lost, cursor, batch, inbox, sender, journalVars>>

JournalPrompt(r) ==
  /\ pc[r] = "prompt"
  /\ Append(r)
  /\ \E m \in Prompts : Current(r, m) /\ journaled' = [journaled EXCEPT ![m] = @ + 1]
  /\ Goto(r, "consume")
  /\ UNCHANGED <<docVars, lost, batch, inbox, sender>>

Consume(r) ==
  /\ pc[r] = "consume"
  /\ \E m \in Prompts :
       /\ Current(r, m)
       /\ IF inbox[m] = "deleted"
          THEN UNCHANGED inbox /\ Raise(r)
          ELSE inbox' = [inbox EXCEPT ![m] = "consumed"] /\ Goto(r, "turn")
  /\ UNCHANGED <<docVars, lost, cursor, batch, sender, journalVars>>

(* The harness answers; its messages are one record here, the result.      *)
Turn(r) ==
  /\ pc[r] = "turn"
  /\ IF lost[r] THEN UNCHANGED <<cursor, head, forked>> ELSE Append(r)
  /\ Goto(r, "flush")
  /\ UNCHANGED <<docVars, lost, batch, inbox, sender, journaled>>

(* update_session after the turn, unless the lease went meanwhile.         *)
Flush(r) ==
  /\ pc[r] = "flush"
  /\ \E m \in Prompts : Current(r, m) /\ batch' = [batch EXCEPT ![r] = @ \ {m}]
  /\ CASE lost[r] -> Goto(r, "done")
       [] ~lost[r] /\ ~session.exists -> Raise(r)
       [] ~lost[r] /\ session.exists ->
            Goto(r, IF batch'[r] = {} THEN "loop" ELSE "prompt")
  /\ UNCHANGED <<docVars, lost, cursor, inbox, sender, journalVars>>

-----------------------------------------------------------------------------
(* The shutdown tail: the last look at `lost`, the checkpoints, the        *)
(* released record, and release_session.                                   *)

Tail(r) ==
  /\ pc[r] = "tail"
  /\ Goto(r, IF lost[r] THEN "done" ELSE "bye")
  /\ UNCHANGED <<docVars, lost, cursor, batch, inbox, sender, journalVars>>

Bye(r) ==
  /\ pc[r] = "bye"
  /\ Append(r)
  /\ Goto(r, "release")
  /\ UNCHANGED <<docVars, lost, batch, inbox, sender, journaled>>

Release(r) ==
  /\ pc[r] = "release"
  /\ IF session.exists
     THEN session' = Released(session) /\ Goto(r, "handoff")
     ELSE session' = session /\ Raise(r)
  /\ UNCHANGED <<lost, cursor, batch, inbox, sender, deleter, journalVars>>

(* Mutant: the execution exits once it has released.                       *)
HandoffSkipped(r) ==
  /\ pc[r] = "handoff"
  /\ Goto(r, "done")
  /\ UNCHANGED <<docVars, lost, cursor, batch, inbox, sender, journalVars>>

(* _handoff_queued: ensure_running once more if mail arrived in the tail.  *)
Handoff(r) ==
  /\ pc[r] = "handoff"
  /\ Goto(r, IF Queue = {} THEN "done" ELSE "h_read")
  /\ UNCHANGED <<docVars, lost, cursor, batch, inbox, sender, journalVars>>

HandoffRead(r) ==
  /\ pc[r] = "h_read"
  /\ Goto(r, IF IsDead(session) \/ LeaseActive(session) THEN "done" ELSE "h_trigger")
  /\ UNCHANGED <<docVars, lost, cursor, batch, inbox, sender, journalVars>>

HandoffTrigger(r) ==
  /\ pc[r] = "h_trigger"
  /\ \E q \in Executions : Fresh(q) /\ pc' = [pc EXCEPT ![r] = "h_mark", ![q] = "boot"]
  /\ UNCHANGED <<docVars, lost, cursor, batch, inbox, sender, journalVars>>

HandoffMark(r) ==
  /\ pc[r] = "h_mark"
  /\ session' = MarkStarting(session)
  /\ Goto(r, "done")
  /\ UNCHANGED <<lost, cursor, batch, inbox, sender, deleter, journalVars>>

-----------------------------------------------------------------------------
(* fail_fast: two records, then release_session; no handoff, so that a run *)
(* that always fails does not start itself again.                          *)

FailRecord(r) ==
  /\ pc[r] \in {"fail", "fail_result"}
  /\ Append(r)
  /\ Goto(r, IF pc[r] = "fail" THEN "fail_result" ELSE "fail_release")
  /\ UNCHANGED <<docVars, lost, batch, inbox, sender, journaled>>

FailRelease(r) ==
  /\ pc[r] = "fail_release"
  /\ session' = IF session.exists THEN Released(session) ELSE session
  /\ Goto(r, "done")
  /\ UNCHANGED <<lost, cursor, batch, inbox, sender, deleter, journalVars>>

-----------------------------------------------------------------------------
(* Mutant: the heartbeat outlives its execution.                           *)
BeatAfterExit(r) ==
  /\ pc[r] \in Beating \cup {"done"} /\ ~lost[r]
  /\ IF CanRenew(session, r)
     THEN session' = Renewed(session) /\ UNCHANGED lost
     ELSE session' = session /\ lost' = [lost EXCEPT ![r] = TRUE]
  /\ UNCHANGED <<pc, cursor, batch, inbox, sender, deleter, journalVars>>

(* The heartbeat task of an execution; it ends once it has set `lost`.     *)
Beat(r) ==
  /\ pc[r] \in Beating /\ ~lost[r]
  /\ IF CanRenew(session, r)
     THEN session' = Renewed(session) /\ UNCHANGED lost
     ELSE session' = session /\ lost' = [lost EXCEPT ![r] = TRUE]
  /\ UNCHANGED <<pc, cursor, batch, inbox, sender, deleter, journalVars>>

(* Time passes.  Unless heartbeats may stall, a lease whose holder still   *)
(* beats is renewed before it runs out: interval is a third of the ttl.    *)
Timely ==
  \A r \in Executions : pc[r] \in Leased /\ ~lost[r] => session.lease_left > 1

Tick ==
  /\ "stall" \in Faults \/ Timely
  /\ session' = Aged(session)
  /\ UNCHANGED <<runVars, inbox, sender, deleter, journalVars>>

-----------------------------------------------------------------------------
(* What may go wrong, and what the operator may do.                        *)

Crash(r) ==
  /\ "crash" \in Faults
  /\ pc[r] \notin {"off", "done"}
  /\ Goto(r, "done")
  /\ UNCHANGED <<docVars, lost, cursor, batch, inbox, sender, journalVars>>

StoreError(r) ==
  /\ "store_error" \in Faults
  /\ pc[r] \in Serving \ {"loop"}
  /\ Raise(r)
  /\ UNCHANGED <<docVars, lost, cursor, batch, inbox, sender, journalVars>>

ReleaseReplyLost(r) ==
  /\ "lost_reply" \in Faults
  /\ pc[r] = "release" /\ session.exists
  /\ session' = Released(session)
  /\ Raise(r)
  /\ UNCHANGED <<lost, cursor, batch, inbox, sender, deleter, journalVars>>

Kill ==
  /\ "kill" \in Faults
  /\ session.exists
  /\ session' \in {Killed(session), Disabled(session)}
  /\ UNCHANGED <<runVars, inbox, sender, deleter, journalVars>>

(* _delete_one: look first, delete afterwards, inbox and journal included. *)
DeleteCheck ==
  /\ "delete" \in Faults
  /\ deleter = "none" /\ session.exists
  /\ DerivedState(session) \notin {"running", "starting"}
  /\ deleter' = "checked"
  /\ UNCHANGED <<session, runVars, inbox, sender, journalVars>>

Delete ==
  /\ deleter = "checked"
  /\ session' = Deleted(session)
  /\ inbox' = [m \in Prompts |-> IF inbox[m] = "unsent" THEN "unsent" ELSE "deleted"]
  /\ head' = 0
  /\ deleter' = "done"
  /\ UNCHANGED <<runVars, sender, forked, journaled>>

-----------------------------------------------------------------------------
Send(m) == Push(m) \/ SenderRead(m) \/ SenderTrigger(m) \/ SenderMark(m)

Serve(r) ==
  \/ Claim(r) \/ Recover(r) \/ Hello(r) \/ Setup(r)
  \/ LoopTop(r) \/ Peek(r) \/ IdlePoll(r)
  \/ JournalPrompt(r) \/ Consume(r) \/ Turn(r) \/ Flush(r)
  \/ Tail(r) \/ Bye(r) \/ Release(r)
  \/ FailRecord(r) \/ FailRelease(r)

HandOff(r) == Handoff(r) \/ HandoffRead(r) \/ HandoffTrigger(r) \/ HandoffMark(r)

Next ==
  \/ \E m \in Prompts : Send(m) \/ SenderTriggerFails(m)
  \/ \E r \in Executions :
       \/ Serve(r) \/ HandOff(r) \/ IdleLapse(r) \/ Beat(r)
       \/ Crash(r) \/ StoreError(r) \/ ReleaseReplyLost(r)
  \/ Tick \/ Kill \/ DeleteCheck \/ Delete

Spec == Init /\ [][Next]_vars

(* A client and an execution go on once they have started; the idle window *)
(* is finite, so polling cannot go on without ever lapsing (strong         *)
(* fairness, a poll in between disables it); heartbeats and time go on.    *)
FairSpec ==
  /\ Spec
  /\ \A m \in Prompts : WF_vars(SenderRead(m) \/ SenderTrigger(m) \/ SenderMark(m))
  /\ \A r \in Executions :
       /\ WF_vars(Serve(r) \/ HandOff(r))
       /\ SF_vars(IdleLapse(r))
       /\ WF_vars(Beat(r))
  /\ WF_vars(Tick)

-----------------------------------------------------------------------------
TypeOK ==
  /\ session \in SessionDocs
  /\ pc \in [Executions -> Stations]
  /\ lost \in [Executions -> BOOLEAN]
  /\ cursor \in [Executions -> Nat]
  /\ batch \in [Executions -> SUBSET Prompts]
  /\ inbox \in [Prompts -> {"unsent", "queued", "consumed", "deleted"}]
  /\ sender \in [Prompts -> {"idle", "read", "trigger", "mark", "done"}]
  /\ deleter \in {"none", "checked", "done"}
  /\ head \in Nat
  /\ forked \in BOOLEAN
  /\ journaled \in [Prompts -> Nat]

(* The lease keeps two executions off one session (store.py, lease_active):*)
(* of all executions at most one is between its claim and its release, as  *)
(* long as heartbeats get through and a release that raised did not land.  *)
OneWriter ==
  \A r, q \in Executions : pc[r] \in Leased /\ pc[q] \in Leased => r = q

(* Every claimer seeds its cursor from the journal and is the only writer, *)
(* so no seq of the branch is ever issued twice, crashes or not.           *)
SeqsUnique == ~forked

(* A prompt that waits in the inbox of a session that may still work is    *)
(* never forgotten: its sender has yet to look for a live run, or some     *)
(* execution has yet to look at the inbox again.  This is what             *)
(* _handoff_queued is for: the sender that saw a live lease did nothing.   *)
WillLook == {"boot", "handoff", "h_read", "h_trigger"} \cup Starting \cup Serving

NoStrandedPrompt ==
  \A m \in Prompts :
    inbox[m] = "queued" /\ ~IsDead(session) =>
      \/ sender[m] \in {"read", "trigger"}
      \/ \E r \in Executions : pc[r] \in WillLook

(* A live lease shows as "running", or as killed: neither mark_starting    *)
(* racing a claim nor a late release can dress a live run up as starting,  *)
(* idle or queued, states in which the console would let it be deleted.    *)
LiveLeaseIsRunning ==
  LeaseActive(session) => session.status \in {"running", "terminated"}

(* A prompt is replayed only by an execution that replaces one that died   *)
(* between journaling it and consuming it; with none dying, two executions *)
(* that peeked the same inbox never both work on it.                       *)
PromptJournaledOnce == \A m \in Prompts : journaled[m] <= 1

(* "a run that dies in between replays the prompt instead of swallowing    *)
(* it": whatever fails, no prompt leaves the inbox without a record of it. *)
ConsumedWasJournaled ==
  \A m \in Prompts : inbox[m] = "consumed" => journaled[m] > 0

(* release_session asks nobody whose lease it clears; yet a live lease is  *)
(* only ever taken from the session by a step of the execution that has it.*)
OnlyOwnerDropsLease ==
  [][\A q \in Executions :
       session.lease_id = q /\ LeaseActive(session) /\ session'.lease_id # q
         => pc'[q] # pc[q]]_vars

-----------------------------------------------------------------------------
(* Why OneWriter, SeqsUnique and LiveLeaseIsRunning hold: the inductive    *)
(* invariant of an instance whose lease can be relied on.                  *)
LeaseKept == Faults \cap {"stall", "lost_reply"} = {}

(* The document names the execution that claimed and has not released it,  *)
HolderIsNamed == \A r \in Executions : pc[r] \in Leased => session.lease_id = r

(* whose lease runs until it learns that it lost it,                       *)
HolderIsLive ==
  \A r \in Executions : pc[r] \in Leased /\ ~lost[r] => session.lease_left > 0

(* which only death teaches it; and before the claim nothing is lost.      *)
LostIsDead ==
  \A r \in Executions :
    lost[r] => /\ pc[r] \notin {"off", "boot"} \cup Starting
               /\ pc[r] \in Leased => IsDead(session)

(* Before the claim and after the release the document names another.      *)
OthersAreNotNamed ==
  \A r \in Executions :
    pc[r] \in {"off", "boot"} \cup HandingOff => session.lease_id # r

(* The writer's cursor stands at the end of the branch.                    *)
CursorAtHead ==
  \A r \in Executions : pc[r] \in Leased \ {"recover"} => cursor[r] >= head

LeaseInv ==
  /\ HolderIsNamed /\ HolderIsLive /\ LostIsDead /\ OthersAreNotNamed
  /\ CursorAtHead /\ SeqsUnique /\ LiveLeaseIsRunning

(* Why NoStrandedPrompt holds when only the operator interferes: a live    *)
(* lease has an execution behind it that will look at the inbox again, and *)
(* the paths on which one leaves without looking are those of the dead.    *)
OnlyOperator == Faults \subseteq {"kill", "delete"}

LiveLeaseIsHeld ==
  LeaseActive(session) /\ ~IsDead(session)
    => \E q \in Executions : pc[q] \in Starting \cup Serving

FailingIsDead == \A r \in Executions : pc[r] \in Failing => IsDead(session)

TerminatedIsDisabled == session.status = "terminated" => session.disabled

DrainedIsGone == \A m \in Prompts : inbox[m] = "deleted" => ~session.exists

HandoffInv ==
  /\ NoStrandedPrompt /\ LiveLeaseIsHeld
  /\ FailingIsDead /\ TerminatedIsDisabled /\ DrainedIsGone

(* Why ConsumedWasJournaled holds: whoever is about to consume a prompt    *)
(* has written its record.                                                 *)
RecordBeforeConsume ==
  \A r \in Executions, m \in Prompts :
    pc[r] = "consume" /\ Current(r, m) => journaled[m] > 0

(* Why PromptJournaledOnce holds when nobody dies between the record and   *)
(* the consumption: a prompt that waits in the inbox has no record yet,    *)
(* unless the one writer is about to consume it; nor has what that writer  *)
(* has not come to in the batch it holds.                                  *)
NoneDies == LeaseKept /\ Faults \cap {"crash", "store_error"} = {}

QueuedIsNew ==
  \A m \in Prompts :
    inbox[m] \in {"unsent", "queued"} =>
      \/ journaled[m] = 0
      \/ \E r \in Executions : pc[r] = "consume" /\ Current(r, m)

RestIsNew ==
  \A r \in Executions :
    pc[r] \in {"prompt", "consume", "turn", "flush"} =>
      \A m \in batch[r] : (pc[r] # "prompt" /\ Current(r, m)) \/ journaled[m] = 0

IdleIsUnsent ==
  \A m \in Prompts :
    sender[m] = "idle" => inbox[m] = "unsent" /\ \A r \in Executions : m \notin batch[r]

OnceInv == PromptJournaledOnce /\ QueuedIsNew /\ RestIsNew /\ IdleIsUnsent

-----------------------------------------------------------------------------
(* Every queued prompt is consumed sooner or later, or the session is dead.*)
PromptsServed ==
  \A m \in Prompts : inbox[m] = "queued" ~> (inbox[m] # "queued" \/ IsDead(session))

(* Scale to zero: no execution keeps the session for good, and the lease   *)
(* of one that died runs out by itself.                                    *)
LeaseAlwaysLapses == []<>(~LeaseActive(session))

-----------------------------------------------------------------------------
(* A claim of the documentation that the code does not keep: a release     *)
(* writes idle over whatever is there.                                     *)

(* client.terminate() says it ends the session for good: once the status   *)
(* is "terminated" it stays that.                                          *)
TerminatedForGood ==
  [][session.status = "terminated" => session'.status = "terminated"]_vars
=============================================================================
