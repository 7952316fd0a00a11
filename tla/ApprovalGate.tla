------------------------------ MODULE ApprovalGate ------------------------------
(***************************************************************************)
(* The governance gate of one session (src/src/syros/gate.py): the hook    *)
(* that audits every tool call and looks at the kill switch, and the wait  *)
(* of a gated call for somebody's answer on an approval document.  The     *)
(* document is keyed by a hash of the call, so a call repeated with the    *)
(* same input finds the record of its predecessor.  It is written without  *)
(* transactions by the gate, by the people who answer (console, CLI) and   *)
(* by the client that relays the pending ones to its own callback.         *)
(***************************************************************************)
EXTENDS Naturals, Sequences

CONSTANTS Inputs,    \* what calls are made of: a tool and its input
          InputOf,   \* of each call, in the order they begin
          ToolOf,    \* the tool of each input
          Gated,     \* the calls the permission policy gates
          People,    \* who answers in the console or by the CLI
          Relays,    \* clients that stream the session with a callback
          Faults

FaultKinds == {"kill",            \* the operator kills the session
               "exec_dies",       \* the execution dies and another goes on
               "parallel_twins"}  \* a call is made while its twin waits

Calls == DOMAIN InputOf

ASSUME CallAssumption ==
  /\ InputOf \in Seq(Inputs) /\ Gated \subseteq Calls
  /\ DOMAIN ToolOf = Inputs
ASSUME PeopleAssumption == People \cap Relays = {}
ASSUME FaultAssumption == Faults \subseteq FaultKinds

VARIABLES
  dead,     \* the kill switch, or a terminated status
  record,   \* status of the approval document under each hash; a deny
            \* whose decided_by is the timeout is "timeout"
  pc,       \* where each call stands
  killed,   \* what the hook read off the kill switch
  audit,    \* decision of each call's tool_call row
  mirror,   \* the last approval row of each call in the journal
  late,     \* whose deadline has passed
  view,     \* the pending requests each decider has listed
  granted   \* history: calls allowed by somebody since they asked

callVars == <<pc, killed, audit, mirror, late>>
vars == <<dead, record, pc, killed, audit, mirror, late, view, granted>>

-----------------------------------------------------------------------------
Deciders == People \cup Relays

Stations == {"new", "hook", "ask", "note", "wait", "look", "expire", "close",
             "decide_allow", "decide_deny", "ran", "denied", "lost"}
Settled == {"ran", "denied", "lost"}
Waiting(c) == pc[c] \in {"note", "wait", "look", "expire", "close",
                         "decide_allow", "decide_deny"}

(* call_hash: equal exactly for the same tool with the same input.         *)
(* Mutant: the input is left out.                                          *)
KeyOfTool(c) == CHOOSE i \in Inputs : ToolOf[i] = ToolOf[InputOf[c]]
Key(c) == InputOf[c]

Goto(c, station) == pc' = [pc EXCEPT ![c] = station]

Init ==
  /\ dead = FALSE
  /\ record = [h \in Inputs |-> "none"]
  /\ pc = [c \in Calls |-> "new"]
  /\ killed = [c \in Calls |-> FALSE]
  /\ audit = [c \in Calls |-> "none"]
  /\ mirror = [c \in Calls |-> "none"]
  /\ late = [c \in Calls |-> FALSE]
  /\ view = [d \in Deciders |-> {}]
  /\ granted = {}

-----------------------------------------------------------------------------
(* _pre_tool_use: the kill switch is read, then the row is written, then   *)
(* the call is refused or goes on to the policy.                           *)
HookStart(c) ==
  /\ pc[c] = "new"
  /\ \A b \in Calls : b < c => pc[b] # "new"
  /\ "parallel_twins" \in Faults
       \/ \A t \in Calls \ {c} : InputOf[t] = InputOf[c] => pc[t] \in Settled \cup {"new"}
  /\ killed' = [killed EXCEPT ![c] = dead]
  /\ Goto(c, "hook")
  /\ UNCHANGED <<dead, record, audit, mirror, late, view, granted>>

HookVerdict(c) ==
  IF killed[c] THEN "denied" ELSE IF c \in Gated THEN "ask" ELSE "ran"

HookRow(c) ==
  /\ pc[c] = "hook"
  /\ audit' = [audit EXCEPT ![c] = IF killed[c] THEN "killed" ELSE "allowed"]
  /\ killed' = [killed EXCEPT ![c] = FALSE]
  /\ Goto(c, HookVerdict(c))
  /\ UNCHANGED <<dead, record, mirror, late, view, granted>>

(* request_approval sets the whole document.                               *)
(* Mutant: a record that is there is left as it is.                        *)
RequestedOnce(h) == IF record[h] = "none" THEN [record EXCEPT ![h] = "pending"] ELSE record
Requested(h) == [record EXCEPT ![h] = "pending"]

RequestApproval(c) ==
  /\ pc[c] = "ask"
  /\ record' = Requested(Key(c))
  /\ granted' = granted \ {c}
  /\ Goto(c, "note")
  /\ UNCHANGED <<dead, killed, audit, mirror, late, view>>

NoteRequest(c) ==
  /\ pc[c] = "note"
  /\ mirror' = [mirror EXCEPT ![c] = "requested"]
  /\ Goto(c, "wait")
  /\ UNCHANGED <<dead, record, killed, audit, late, view, granted>>

(* The deadline passes, some time after the request.                       *)
Deadline(c) ==
  /\ pc[c] \in {"wait", "look"} /\ ~late[c]
  /\ late' = [late EXCEPT ![c] = TRUE]
  /\ UNCHANGED <<dead, record, pc, killed, audit, mirror, view, granted>>

(* The head of the loop.                                                   *)
(* Mutant: the deadline is not looked at again.                            *)
PastDeadlineNever(c) == FALSE
PastDeadline(c) == late[c]

(* One poll of the record; an answer is journaled before it is returned.   *)
Poll(c) ==
  /\ pc[c] = "wait"
  /\ IF PastDeadline(c) THEN Goto(c, "expire")
     ELSE IF record[Key(c)] = "allow" THEN Goto(c, "decide_allow")
     ELSE IF record[Key(c)] \in {"deny", "timeout"} THEN Goto(c, "decide_deny")
     ELSE Goto(c, "look")
  /\ UNCHANGED <<dead, record, killed, audit, mirror, late, view, granted>>

(* Mutant: only a refusal is journaled.                                    *)
RowOfRefusal(c) == IF pc[c] = "decide_deny" THEN "deny" ELSE mirror[c]
RowOf(c) == IF pc[c] = "decide_allow" THEN "allow" ELSE "deny"

Decided(c) ==
  /\ pc[c] \in {"decide_allow", "decide_deny"}
  /\ mirror' = [mirror EXCEPT ![c] = RowOf(c)]
  /\ late' = [late EXCEPT ![c] = FALSE]
  /\ Goto(c, IF pc[c] = "decide_allow" THEN "ran" ELSE "denied")
  /\ UNCHANGED <<dead, record, killed, audit, view, granted>>

(* The kill switch is looked at when there is no answer, before the sleep. *)
KillCheck(c) ==
  /\ pc[c] = "look"
  /\ Goto(c, IF dead THEN "denied" ELSE "wait")
  /\ late' = [late EXCEPT ![c] = ~dead /\ @]
  /\ UNCHANGED <<dead, record, killed, audit, mirror, view, granted>>

(* The timeout denies, whatever the record says by then.                   *)
(* Mutant: it leaves the record alone.                                     *)
TimedOutQuietly(h) == record
TimedOut(h) == [record EXCEPT ![h] = "timeout"]

Expire(c) ==
  /\ pc[c] = "expire"
  /\ record' = TimedOut(Key(c))
  /\ Goto(c, "close")
  /\ UNCHANGED <<dead, killed, audit, mirror, late, view, granted>>

NoteTimeout(c) ==
  /\ pc[c] = "close"
  /\ mirror' = [mirror EXCEPT ![c] = "deny"]
  /\ late' = [late EXCEPT ![c] = FALSE]
  /\ Goto(c, "denied")
  /\ UNCHANGED <<dead, record, killed, audit, view, granted>>

-----------------------------------------------------------------------------
(* Who answers.  The list is read, somebody thinks about it, the answer is *)
(* written; that it still is pending nobody checks.                        *)

Pending == {h \in Inputs : record[h] = "pending"}

Sees(d, requests) ==
  /\ view[d] = {} /\ requests # {}
  /\ view' = [view EXCEPT ![d] = requests]
  /\ UNCHANGED <<dead, record, callVars, granted>>

DecideApproval(d, h, status) ==
  /\ h \in view[d]
  /\ record[h] # "none"
  /\ record' = [record EXCEPT ![h] = status]
  /\ granted' = IF status = "allow"
                THEN granted \cup {c \in Calls : Key(c) = h /\ Waiting(c)} ELSE granted
  /\ UNCHANGED <<dead, callVars>>

(* In the console and by the CLI somebody picks one request of the list.   *)
Pick(p) == \E h \in Pending : Sees(p, {h})

Answer(p) ==
  \E h \in view[p], status \in {"allow", "deny"} :
    DecideApproval(p, h, status) /\ view' = [view EXCEPT ![p] = {}]

(* _relay_approvals goes through all of them.                              *)
ListPending(r) == Sees(r, Pending)

RelayApprovals(r) ==
  \E h \in view[r], status \in {"allow", "deny"} :
    DecideApproval(r, h, status) /\ view' = [view EXCEPT ![r] = @ \ {h}]

-----------------------------------------------------------------------------
Kill ==
  /\ "kill" \in Faults /\ ~dead
  /\ dead' = TRUE
  /\ UNCHANGED <<record, callVars, view, granted>>

(* The execution dies with every call in it; the harness of the next one   *)
(* makes new calls.                                                        *)
ExecDies ==
  /\ "exec_dies" \in Faults
  /\ \E c \in Calls : pc[c] \notin Settled \cup {"new"}
  /\ pc' = [c \in Calls |-> IF pc[c] \in Settled \cup {"new"} THEN pc[c] ELSE "lost"]
  /\ late' = [c \in Calls |-> FALSE]
  /\ killed' = [c \in Calls |-> FALSE]
  /\ UNCHANGED <<dead, record, audit, mirror, view, granted>>

PreToolUse(c) == HookStart(c) \/ HookRow(c)
CanUseTool(c) ==
  \/ RequestApproval(c) \/ NoteRequest(c) \/ Poll(c) \/ Decided(c) \/ KillCheck(c)
  \/ Expire(c) \/ NoteTimeout(c)

Next ==
  \/ \E c \in Calls : PreToolUse(c) \/ CanUseTool(c) \/ Deadline(c)
  \/ \E p \in People : Pick(p) \/ Answer(p)
  \/ \E r \in Relays : ListPending(r) \/ RelayApprovals(r)
  \/ Kill
  \/ ExecDies

Spec == Init /\ [][Next]_vars

(* The execution proceeds and time passes; nobody has to answer.           *)
FairSpec ==
  Spec /\ \A c \in Calls : WF_vars(CanUseTool(c)) /\ WF_vars(HookRow(c)) /\ WF_vars(Deadline(c))

-----------------------------------------------------------------------------
TypeOK ==
  /\ dead \in BOOLEAN
  /\ record \in [Inputs -> {"none", "pending", "allow", "deny", "timeout"}]
  /\ pc \in [Calls -> Stations]
  /\ killed \in [Calls -> BOOLEAN]
  /\ audit \in [Calls -> {"none", "allowed", "killed"}]
  /\ mirror \in [Calls -> {"none", "requested", "allow", "deny"}]
  /\ late \in [Calls -> BOOLEAN]
  /\ view \in [Deciders -> SUBSET Inputs]
  /\ granted \subseteq Calls

(* A gated call runs only if somebody allowed it after it asked: the       *)
(* answer to an earlier call with the same input, which lies under the     *)
(* same hash, does not let it through, whatever came in between.           *)
AllowedByPerson == \A c \in Gated : pc[c] = "ran" => c \in granted

(* What the transcript says of a call is what became of it.                *)
TranscriptAgrees ==
  \A c \in Calls :
    /\ pc[c] = "ran" => audit[c] = "allowed" /\ (c \in Gated => mirror[c] = "allow")
    /\ pc[c] = "denied" => mirror[c] # "allow"
    /\ pc[c] = "denied" /\ audit[c] = "allowed" /\ mirror[c] = "requested" => dead

(* No call is refused for a deadline that was not its own.                 *)
OnlyOwnDeadline ==
  [][\A c \in Calls :
       pc[c] = "wait" /\ pc'[c] = "decide_deny" => record[Key(c)] # "timeout"]_vars

(* A request does not stay in the queue of the pending after its call was  *)
(* answered; only a kill and a death of the execution leave it there.      *)
NothingLingers ==
  \A c \in Gated :
    /\ pc[c] \in {"ran", "denied"} /\ mirror[c] \in {"allow", "deny"}
    /\ record[Key(c)] = "pending"
    => \E t \in Gated \ {c} : Key(t) = Key(c) /\ (Waiting(t) \/ pc[t] \in Settled)

(* Whether or not anybody answers, a call that asks is settled.            *)
AllAnswered == \A c \in Calls : Waiting(c) ~> pc[c] \in Settled

=============================================================================
