---------------------------- MODULE SessionBranches ----------------------------
(***************************************************************************)
(* The transcript of one session as a tree: the journal's records with     *)
(* their seqs and parents (journal.py), rewinding to a past event          *)
(* (remote.py's branch_from_event), the runner that continues the active   *)
(* branch and picks the SDK conversation to answer from (runner.py), and   *)
(* the clients that attach, prompt and stream one branch until a result.   *)
(*                                                                         *)
(* The lease is reduced to its holder, who keeps it until it is released   *)
(* or, after a death, lapses; SessionRun has its clock and its heartbeat.  *)
(* A conversation of the harness is a number; resuming continues it under  *)
(* its own number, forking copies it to a new one.                         *)
(***************************************************************************)
EXTENDS Naturals, Sequences, FiniteSets

CONSTANTS MaxClients,      \* bound: clients, in the order they come
          MaxExecutions,   \* bound: executions ever triggered
          MaxBranches,     \* bound: rewinds, branches being numbered from 1
          MaxFailures,     \* bound: what goes wrong
          Faults

FaultKinds ==
  {"failure",          \* a run fails or dies
   "lost_flush",       \* ... between a result and its flush
   "early_end",        \* the first run of a branch ends before its first flush
   "append_error",     \* the record of a tool call cannot be written
   "early_claim",      \* a run claims a branch that lacks its first record
   "rewind_to_start",  \* somebody rewinds to before the first turn
   "rewind_to_error"}  \* ... to the result of a run that failed

ASSUME BoundAssumption ==
  MaxClients \in Nat /\ MaxExecutions \in Nat /\ MaxBranches \in Nat /\ MaxFailures \in Nat
ASSUME FaultAssumption == Faults \subseteq FaultKinds

Clients == 1..MaxClients
Executions == 1..MaxExecutions
Main == 0
BranchIds == 0..MaxBranches
None == 0   \* no record, no conversation, no execution

VARIABLES
  journal,   \* the records of all branches in the order they landed; the
             \* place of a record is its uuid
  doc,       \* of the session document: active_branch, seq_head,
             \* claude_session_id and who holds the lease
  base,      \* the branches map: base_seq, base_uuid, claude_session_id
  made,      \* how many branches there are besides main
  queue,     \* how many prompts wait in the inbox
  exec,      \* what each execution has in hand
  minted,    \* its record on the way to the store, by who appends it
  memory,    \* of each conversation: the prompts it holds
  client,    \* what each client has in hand
  logged,    \* the insert ids of the run log
  failures,  \* runs that failed or died and records that did not land
  twice,     \* history: an insert id was used again
  stale      \* history: a stream ended with a result from before it attached

vars == <<journal, doc, base, made, queue, exec, minted, memory, client, logged, failures, twice, stale>>

-----------------------------------------------------------------------------
(* The journal.                                                            *)

Kinds == {"claimed", "prompt", "tool_call", "message", "result", "error",
          "released", "branch_created"}
Uuids == DOMAIN journal
IsResult(i) == journal[i].kind \in {"result", "error"}
On(b) == {i \in Uuids : journal[i].branch = b}

(* recover_head: the highest seq of the branch, nobody's if it has none.   *)
HeadOf(b) ==
  IF On(b) = {} THEN <<0, None>>
  ELSE LET i == CHOOSE i \in On(b) : \A j \in On(b) : journal[j].seq <= journal[i].seq
       IN  <<journal[i].seq, i>>

(* _turn_base: back along the parents to the nearest result.               *)
TurnBase(event) ==
  LET walk[i \in 0..event] ==
        IF i = None \/ IsResult(i) THEN i ELSE walk[journal[i].parent]
  IN  walk[event]

(* The conversation of a turn: what the result says, the context of the    *)
(* record being as old as the last flush.                                  *)
(* Mutant: the context is believed first.                                  *)
ConversationByContext(i) ==
  IF journal[i].context # None THEN journal[i].context ELSE journal[i].sdk
ConversationAt(i) ==
  IF journal[i].sdk # None THEN journal[i].sdk ELSE journal[i].context

(* The records a branch shows: its own and those its base stands on.       *)
Lineage(tip) ==
  LET walk[i \in 0..tip] == IF i = None THEN {} ELSE {i} \cup walk[journal[i].parent]
  IN  walk[tip]

-----------------------------------------------------------------------------
NoRecord == [kind |-> "none"]
Idle == [pc |-> "off", branch |-> Main, seq |-> 0, tip |-> None, fresh |-> FALSE,
         known |-> None, sdk |-> None, told |-> None, context |-> None, flushed |-> FALSE,
         prompt |-> None]
Gone == [Idle EXCEPT !.pc = "done"]
Visitor == [pc |-> "new", branch |-> Main, cursor |-> 0, since |-> 0]

Init ==
  /\ journal = <<>>
  /\ doc = [active |-> Main, head |-> 0, sdk |-> None, lease |-> None]
  /\ base = [b \in BranchIds |-> [seq |-> 0, uuid |-> None, sdk |-> None]]
  /\ made = 0
  /\ queue = 0
  /\ exec = [r \in Executions |-> Idle]
  /\ minted = [r \in Executions |-> [w \in {"loop", "hook"} |-> NoRecord]]
  /\ memory = <<>>
  /\ client = [c \in Clients |-> Visitor]
  /\ logged = {}
  /\ failures = 0
  /\ twice = FALSE
  /\ stale = FALSE

execVars == <<exec, minted, memory>>
logVars == <<logged, failures, twice, stale>>

-----------------------------------------------------------------------------
(* attach_session: the session is read, then the head of the branch that   *)
(* was active.  A rewind between the two leaves the client where a rewind  *)
(* right after them does, so they are one step.                            *)

(* Mutant: the cursor is the head the document was last told.              *)
CursorOfDoc(b) == doc.head
CursorOf(b) == HeadOf(b)[1]

Comes(c) == client[c].pc = "new" /\ \A d \in Clients : d < c => client[d].pc # "new"

Attach(c) ==
  /\ Comes(c)
  /\ client' = [client EXCEPT ![c].pc = "attached", ![c].branch = doc.active,
                              ![c].cursor = CursorOf(doc.active),
                              ![c].since = Len(journal)]
  /\ UNCHANGED <<journal, doc, base, made, queue, execVars, logVars>>

(* branch_from_event up to create_branch's transaction, which looks at the *)
(* lease once more; the records walked to the base never change.  A client *)
(* that is refused has changed nothing and may try again.                  *)
RewindPoints ==
  {b \in {TurnBase(i) : i \in Uuids} :
     /\ b = None => "rewind_to_start" \in Faults
     /\ b # None /\ journal[b].kind = "error" => "rewind_to_error" \in Faults}

Rewind(c) ==
  /\ Comes(c)
  /\ doc.lease = None
  /\ made < MaxBranches
  /\ \E i \in RewindPoints :
       LET from == IF i = None THEN 0 ELSE journal[i].seq
       IN  /\ base' = [base EXCEPT ![made + 1] =
                 [seq |-> from, uuid |-> i,
                  sdk |-> IF i = None THEN None ELSE ConversationAt(i)]]
           /\ doc' = [doc EXCEPT !.active = made + 1, !.head = from]
  /\ made' = made + 1
  /\ client' = [client EXCEPT ![c].pc = "record", ![c].branch = made + 1]
  /\ UNCHANGED <<journal, queue, execVars, logVars>>

(* Its first record says where it came from.                               *)
RecordBranch(c) ==
  /\ client[c].pc = "record"
  /\ LET b == client[c].branch IN
     /\ journal' = Append(journal, [branch |-> b, seq |-> base[b].seq + 1,
                                    parent |-> base[b].uuid, kind |-> "branch_created",
                                    sdk |-> None, context |-> None])
     /\ client' = [client EXCEPT ![c].pc = "attached", ![c].cursor = base[b].seq + 1,
                                 ![c].since = Len(journal)]
  /\ UNCHANGED <<doc, base, made, queue, execVars, logVars>>

(* send_prompt, its races with the lease being SessionRun's.               *)
Send(c) ==
  /\ client[c].pc = "attached"
  /\ queue' = queue + 1
  /\ client' = [client EXCEPT ![c].pc = "stream"]
  /\ IF doc.lease # None THEN UNCHANGED exec
     ELSE \E r \in Executions :
            /\ exec[r].pc = "off" /\ \A q \in Executions : q < r => exec[q].pc # "off"
            /\ exec' = [exec EXCEPT ![r].pc = "boot"]
  /\ UNCHANGED <<journal, doc, base, made, minted, memory, logVars>>

(* stream_response ends with the first result past its cursor; the polls   *)
(* before that one only move the cursor.                                   *)
Stream(c) ==
  LET ends == {i \in On(client[c].branch) :
                 journal[i].seq > client[c].cursor /\ IsResult(i)}
  IN  /\ client[c].pc = "stream"
      /\ ends # {}
      /\ \E i \in ends :
           /\ \A j \in ends : journal[i].seq <= journal[j].seq
           /\ stale' = (stale \/ i <= client[c].since)
      /\ client' = [client EXCEPT ![c] = [Visitor EXCEPT !.pc = "done"]]
      /\ UNCHANGED <<journal, doc, base, made, queue, execVars, logged, failures, twice>>

-----------------------------------------------------------------------------
(* run(): claim and read where the branch stands.                          *)

Claim(r) ==
  /\ exec[r].pc = "boot"
  /\ "early_claim" \in Faults \/ \A c \in Clients : client[c].pc # "record"
  /\ IF doc.lease # None
     THEN exec' = [exec EXCEPT ![r] = Gone] /\ UNCHANGED doc
     ELSE /\ doc' = [doc EXCEPT !.lease = r]
          /\ exec' = [exec EXCEPT ![r].pc = "recover", ![r].branch = doc.active,
                                  ![r].known = doc.sdk, ![r].context = doc.sdk]
  /\ UNCHANGED <<journal, base, made, queue, minted, memory, client, logVars>>

(* Mutant: the cursor comes from the document.                             *)
RecoveredFromDoc(b) == <<doc.head, base[b].uuid>>

(* _recover_cursor: the journal's head, the branch's base as its floor.    *)
Recovered(b) ==
  IF HeadOf(b)[1] < base[b].seq THEN <<base[b].seq, base[b].uuid>> ELSE HeadOf(b)

(* Mutant: the branch is new if its conversation is not the session's.     *)
IsFreshByIds(b, seq) == base[b].sdk # doc.sdk
IsFresh(b, seq) == b # Main /\ seq <= base[b].seq + 1

Recover(r) ==
  /\ exec[r].pc = "recover"
  /\ LET at == Recovered(exec[r].branch) IN
     exec' = [exec EXCEPT ![r].pc = "hello", ![r].seq = at[1], ![r].tip = at[2],
                          ![r].fresh = IsFresh(exec[r].branch, at[1])]
  /\ UNCHANGED <<journal, doc, base, made, queue, minted, memory, client, logVars>>

(* JournalWriter.append: under its lock the record is made, written, and   *)
(* then the counters advance.                                              *)
Record(r, kind, sdk) ==
  [branch |-> exec[r].branch, seq |-> exec[r].seq + 1, parent |-> exec[r].tip,
   kind |-> kind, sdk |-> sdk, context |-> exec[r].context]

Land(r, record) == journal' = Append(journal, record)

Advanced(r, record) ==
  [exec EXCEPT ![r].seq = record.seq, ![r].tip = Len(journal) + 1]

(* An append nobody else of the run can interleave with.                   *)
AppendAlone(r, from, kind, sdk, to) ==
  /\ exec[r].pc = from
  /\ Land(r, Record(r, kind, sdk))
  /\ exec' = [Advanced(r, Record(r, kind, sdk)) EXCEPT ![r].pc = to]
  /\ UNCHANGED <<doc, base, made, minted, memory, client, logVars>>

Hello(r) == AppendAlone(r, "hello", "claimed", None, "setup") /\ UNCHANGED queue

(* build_sdk_options: which conversation the harness resumes.              *)
Setup(r) ==
  LET resumed == IF base[exec[r].branch].sdk # None THEN base[exec[r].branch].sdk
                 ELSE exec[r].known
      forks == exec[r].fresh /\ base[exec[r].branch].sdk # None
      opens == IF resumed = None \/ forks THEN Len(memory) + 1 ELSE resumed
  IN  /\ exec[r].pc = "setup"
      /\ exec' = [exec EXCEPT ![r].pc = "loop", ![r].told = resumed, ![r].sdk = opens]
      /\ memory' = IF opens \in DOMAIN memory THEN memory
                   ELSE Append(memory, IF resumed = None THEN {} ELSE memory[resumed])
      /\ UNCHANGED <<journal, doc, base, made, queue, minted, client, logVars>>

(* A prompt leaves the inbox; SessionRun has the step between its record   *)
(* and its consumption.                                                    *)
Prompt(r) ==
  /\ queue > 0
  /\ AppendAlone(r, "loop", "prompt", None, "turn")
  /\ queue' = queue - 1

(* The first run of a branch, before its first flush.                      *)
Untried(r) == exec[r].fresh /\ ~exec[r].flushed

(* In a turn the loop appends what the harness says, and the gate's hook   *)
(* the tool calls; each waits for the lock.                                *)
LockFree(r) == \A w \in {"loop", "hook"} : minted[r][w] = NoRecord

Mint(r, w, kind, sdk) ==
  /\ minted[r][w] = NoRecord
  /\ LockFree(r)
  /\ minted' = [minted EXCEPT ![r][w] = Record(r, kind, sdk)]
  /\ UNCHANGED <<journal, doc, base, made, queue, memory, client, logVars>>

Message(r) ==
  /\ exec[r].pc = "turn"
  /\ exec' = [exec EXCEPT ![r].pc = "spoken", ![r].prompt = exec[r].tip]
  /\ Mint(r, "loop", "message", None)

ToolCall(r) ==
  /\ exec[r].pc = "spoken"
  /\ exec' = [exec EXCEPT ![r].pc = "called"]
  /\ Mint(r, "hook", "tool_call", None)

Result(r) ==
  /\ exec[r].pc \in {"spoken", "called"}
  /\ minted[r]["loop"] = NoRecord /\ minted[r]["hook"] = NoRecord
  /\ Land(r, Record(r, "result", exec[r].sdk))
  /\ memory' = [memory EXCEPT ![exec[r].sdk] = @ \cup {exec[r].prompt}]
  /\ exec' = [Advanced(r, Record(r, "result", exec[r].sdk)) EXCEPT
                ![r].pc = "flush", ![r].told = exec[r].sdk]
  /\ UNCHANGED <<doc, base, made, queue, minted, client, logVars>>

Written(r, w) ==
  /\ minted[r][w] # NoRecord
  /\ Land(r, minted[r][w])
  /\ exec' = Advanced(r, minted[r][w])
  /\ minted' = [minted EXCEPT ![r][w] = NoRecord]
  /\ UNCHANGED <<doc, base, made, queue, memory, client, logVars>>

(* The write raises: the counters stay and the next record takes the seq.  *)
NotWritten(r) ==
  /\ "append_error" \in Faults
  /\ failures < MaxFailures /\ failures' = failures + 1
  /\ minted[r]["hook"] # NoRecord
  /\ minted' = [minted EXCEPT ![r]["hook"] = NoRecord]
  /\ UNCHANGED <<journal, doc, base, made, queue, exec, memory, client, logged, twice, stale>>

(* The flush after a turn.                                                 *)
Flush(r) ==
  /\ exec[r].pc = "flush"
  /\ doc' = [doc EXCEPT !.head = exec[r].seq, !.sdk = exec[r].told]
  /\ base' = [base EXCEPT ![exec[r].branch].sdk = exec[r].told]
  /\ exec' = [exec EXCEPT ![r].pc = "loop", ![r].flushed = TRUE,
                          ![r].context = exec[r].told]
  /\ UNCHANGED <<journal, made, queue, minted, memory, client, logVars>>

(* Nothing is left: checkpoints, the last record, the release.             *)
Bye(r) ==
  /\ queue = 0
  /\ Untried(r) => "early_end" \in Faults
  /\ AppendAlone(r, "loop", "released", None, "release")
  /\ UNCHANGED queue

(* Mutant: the branch is left out.                                         *)
InsertIdOfSession(b, seq) == seq
InsertId(b, seq) == <<b, seq>>

(* append_run_log: BigQuery drops a row whose insert id it has seen.       *)
AppendRow(id) ==
  /\ logged' = logged \cup {id}
  /\ twice' = (twice \/ id \in logged)

RunLog(r) ==
  AppendRow(InsertId(exec[r].branch, exec[r].seq)) /\ UNCHANGED <<failures, stale>>

Release(r) ==
  /\ exec[r].pc = "release"
  /\ doc' = [doc EXCEPT !.lease = None, !.head = exec[r].seq, !.sdk = exec[r].told]
  /\ exec' = [exec EXCEPT ![r] = Gone]
  /\ RunLog(r)
  /\ UNCHANGED <<journal, base, made, queue, minted, memory, client>>

-----------------------------------------------------------------------------
(* What goes wrong, before the first flush or after it.                    *)

Trouble(r) ==
  /\ failures < MaxFailures
  /\ failures' = failures + 1
  /\ (IF Untried(r) THEN "early_end" ELSE IF exec[r].pc = "flush" THEN "lost_flush"
      ELSE "failure") \in Faults

(* fail_fast: a busy workspace, a connector, or any exception of the run;  *)
(* its result carries the conversation the session had at the claim.       *)
Fail(r) ==
  /\ exec[r].pc \in {"setup", "loop", "turn", "spoken", "called", "flush"}
  /\ Trouble(r) /\ LockFree(r)
  /\ Land(r, Record(r, "error", exec[r].known))
  /\ exec' = [Advanced(r, Record(r, "error", exec[r].known)) EXCEPT ![r].pc = "fail_release"]
  /\ UNCHANGED <<doc, base, made, queue, minted, memory, client, logged, twice, stale>>

FailRelease(r) ==
  /\ exec[r].pc = "fail_release"
  /\ doc' = [doc EXCEPT !.lease = None, !.head = exec[r].seq]
  /\ exec' = [exec EXCEPT ![r] = Gone]
  /\ RunLog(r)
  /\ UNCHANGED <<journal, base, made, queue, minted, memory, client>>

Die(r) ==
  /\ doc.lease = r
  /\ exec[r] # Gone
  /\ Trouble(r)
  /\ exec' = [exec EXCEPT ![r] = Gone]
  /\ minted' = [minted EXCEPT ![r] = [w \in {"loop", "hook"} |-> NoRecord]]
  /\ UNCHANGED <<journal, doc, base, made, queue, memory, client, logged, twice, stale>>

Lapse ==
  /\ doc.lease # None /\ exec[doc.lease] = Gone
  /\ doc' = [doc EXCEPT !.lease = None]
  /\ UNCHANGED <<journal, base, made, queue, execVars, client, logVars>>

-----------------------------------------------------------------------------
ClientStep(c) ==
  Attach(c) \/ Rewind(c) \/ RecordBranch(c) \/ Send(c) \/ Stream(c)

Run(r) ==
  \/ Claim(r) \/ Recover(r) \/ Hello(r) \/ Setup(r) \/ Prompt(r)
  \/ Message(r) \/ ToolCall(r) \/ Result(r) \/ Flush(r) \/ Bye(r) \/ Release(r)
  \/ Written(r, "loop") \/ Written(r, "hook") \/ NotWritten(r)
  \/ Fail(r) \/ FailRelease(r) \/ Die(r)

Next == (\E c \in Clients : ClientStep(c)) \/ (\E r \in Executions : Run(r)) \/ Lapse

Spec == Init /\ [][Next]_vars

-----------------------------------------------------------------------------
Stations == {"off", "boot", "recover", "hello", "setup", "loop", "turn", "spoken", "called",
             "flush", "release", "fail_release", "done"}
Writers == {"loop", "hook"}
Records == [branch : BranchIds, seq : Nat, parent : Nat, kind : Kinds, sdk : Nat, context : Nat]

TypeOK ==
  /\ journal \in Seq(Records)
  /\ doc \in [active : BranchIds, head : Nat, sdk : Nat, lease : {None} \cup Executions]
  /\ base \in [BranchIds -> [seq : Nat, uuid : Nat, sdk : Nat]]
  /\ made \in BranchIds
  /\ queue \in Nat
  /\ exec \in [Executions ->
       [pc : Stations, branch : BranchIds, seq : Nat, tip : Nat, fresh : BOOLEAN, known : Nat,
        sdk : Nat, told : Nat, context : Nat, flushed : BOOLEAN, prompt : Nat]]
  /\ minted \in [Executions -> [Writers -> Records \cup {NoRecord}]]
  /\ memory \in Seq(SUBSET Nat)
  /\ client \in [Clients -> [pc : {"new", "record", "attached", "stream", "done"},
                             branch : BranchIds, cursor : Nat, since : Nat]]
  /\ logged \subseteq BranchIds \X Nat
  /\ failures \in Nat
  /\ twice \in BOOLEAN /\ stale \in BOOLEAN

(* The newest record has a seq of its own on its branch and continues the  *)
(* one before it: its parent stands right before it, on its own branch or, *)
(* for the first record of a branch, at the base.  The loop and the hook   *)
(* append side by side and the run before may have died anywhere.          *)
TreeIsSound ==
  LET i == Len(journal) IN
  i > 0 =>
    /\ \A j \in On(journal[i].branch) \ {i} : journal[j].seq < journal[i].seq
    /\ journal[i].seq = 1 + IF journal[i].parent = None THEN 0
                            ELSE journal[journal[i].parent].seq
    /\ journal[i].parent # None /\ journal[journal[i].parent].branch # journal[i].branch
         => journal[i].kind = "branch_created"

(* A rewound branch talks in a conversation of its own: no two branches    *)
(* ever have a turn in the same one, so neither continues the other's tip. *)
Turns == {i \in Uuids : journal[i].kind = "result"}
OwnConversation ==
  \A i, j \in Turns :
    journal[i].sdk = journal[j].sdk => journal[i].branch = journal[j].branch

(* Whoever answers a prompt remembers every turn the branch shows.         *)
TurnOf(p) == {i \in Turns : p \in Lineage(i) /\ TurnBase(p) = TurnBase(journal[i].parent)}
RemembersLineage ==
  \A r \in Executions :
    exec[r].pc = "turn" =>
      Lineage(exec[r].tip) \cap Turns \subseteq UNION {TurnOf(p) : p \in memory[exec[r].sdk]}

(* A client's stream ends with a result that came after it attached, never *)
(* with what was left in the journal of an earlier run.                    *)
AnswerIsFresh == ~stale

(* No two released runs share an insert id, rewound to whatever seq.       *)
RunLogIdsDistinct == ~twice

-----------------------------------------------------------------------------
(* The inductive invariant behind TreeIsSound, AnswerIsFresh and           *)
(* RunLogIdsDistinct, for runs that never claim a branch ahead of its      *)
(* first record.                                                           *)
NoEarlyClaim == "early_claim" \notin Faults

Live(r) == exec[r].pc \notin {"off", "boot", "done"}
Recording(c) == client[c].pc = "record"

(* What is pointed at is there: the records and the conversations.         *)
Known(conversation) == conversation <= Len(memory)

RecordsPointBack ==
  \A i \in Uuids :
    journal[i].parent < i /\ Known(journal[i].sdk) /\ Known(journal[i].context)

BasesStand ==
  /\ \A b \in BranchIds :
       /\ Known(base[b].sdk)
       /\ IF base[b].uuid = None THEN base[b].seq = 0
          ELSE base[b].uuid \in Uuids /\ base[b].seq = journal[base[b].uuid].seq
  /\ base[Main].uuid = None
  /\ doc.active <= made /\ Known(doc.sdk)

HandsHold ==
  /\ \A r \in Executions :
       /\ exec[r].tip <= Len(journal)
       /\ \A s \in {exec[r].known, exec[r].sdk, exec[r].told, exec[r].context} : Known(s)
  /\ \A r \in Executions, w \in Writers :
       minted[r][w] # NoRecord =>
         /\ minted[r][w].parent <= Len(journal)
         /\ Known(minted[r][w].sdk) /\ Known(minted[r][w].context)

PointersHold == RecordsPointBack /\ BasesStand /\ HandsHold

(* Every branch with records has a highest one.                            *)
HeadsExist ==
  \A b \in BranchIds :
    On(b) # {} => \E i \in On(b) : \A j \in On(b) : journal[j].seq <= journal[i].seq

(* A run at work holds the lease, on the active branch, whose first record *)
(* is written.                                                             *)
LeaseIsHeld ==
  \A r \in Executions :
    Live(r) => /\ doc.lease = r
               /\ exec[r].branch = doc.active
               /\ \A c \in Clients : ~Recording(c)

(* It stands at the end of that branch.                                    *)
WriterAtHead ==
  \A r \in Executions :
    Live(r) /\ exec[r].pc # "recover" =>
      /\ \A j \in On(exec[r].branch) : journal[j].seq <= exec[r].seq
      /\ IF exec[r].tip = None THEN exec[r].seq = 0
         ELSE /\ exec[r].tip \in Uuids
              /\ journal[exec[r].tip].seq = exec[r].seq
              /\ journal[exec[r].tip].branch = exec[r].branch

(* Of what its loop and its hook write there is one record on the way, the *)
(* next one of the branch.                                                 *)
MintedIsNext ==
  \A r \in Executions, w \in Writers :
    minted[r][w] # NoRecord =>
      /\ exec[r].pc \in {"spoken", "called"}
      /\ minted[r][w] = [branch |-> exec[r].branch, seq |-> exec[r].seq + 1,
                         parent |-> exec[r].tip, kind |-> minted[r][w].kind,
                         sdk |-> None, context |-> exec[r].context]
      /\ minted[r][w].kind \in {"message", "tool_call"}
      /\ \A v \in Writers : v # w => minted[r][v] = NoRecord

(* A branch is empty until its client has recorded it, and only then.      *)
BranchesAreRecorded ==
  /\ \A b \in BranchIds : b > made => On(b) = {}
  /\ \A b \in 1..made :
       \/ \E c \in Clients : Recording(c) /\ client[c].branch = b
       \/ \E j \in On(b) : journal[j].seq > base[b].seq
  /\ \A c \in Clients :
       Recording(c) =>
         /\ client[c].branch \in 1..made
         /\ On(client[c].branch) = {}
         /\ \A d \in Clients : Recording(d) /\ client[d].branch = client[c].branch => d = c

TreeInv ==
  /\ LeaseIsHeld /\ WriterAtHead /\ MintedIsNext /\ BranchesAreRecorded /\ TreeIsSound

(* The cursor of a client is at or past all there was when it attached.    *)
CursorCoversPast ==
  \A c \in Clients :
    client[c].pc \in {"attached", "stream"} =>
      /\ client[c].since <= Len(journal)
      /\ \A j \in On(client[c].branch) : j <= client[c].since => journal[j].seq <= client[c].cursor

(* The rows of a branch are of records it has, before those of the run at  *)
(* work.                                                                   *)
LoggedIsPast ==
  /\ \A id \in logged : \E j \in On(id[1]) : journal[j].seq >= id[2]
  /\ \A r \in Executions :
       Live(r) /\ exec[r].pc \notin {"recover", "hello"} =>
         /\ exec[r].tip # None
         /\ \A id \in logged : id[1] = exec[r].branch => id[2] < exec[r].seq

-----------------------------------------------------------------------------
(* The inductive invariant behind OwnConversation, for rewinds to a turn   *)
(* and for branches whose first run gets as far as its first flush.        *)
OrderlyRewinds ==
  {"early_claim", "early_end", "rewind_to_start", "rewind_to_error"} \cap Faults = {}

(* A run past its setup, in a conversation.                                *)
Opened(r) == exec[r].pc \in {"loop", "turn", "spoken", "called", "flush", "release"}

(* The branches whose base row has become their own: main, and those with  *)
(* more than their first record whose first run is not at work, or flushed.*)
HasRun(b) == \E j \in On(b) : journal[j].seq > base[b].seq + 1

Settled(b) ==
  \/ b = Main
  \/ /\ HasRun(b)
     /\ \A r \in Executions : Live(r) /\ Untried(r) => exec[r].branch # b

TalksIn(b, s) ==
  \/ \E i \in Turns : journal[i].branch = b /\ journal[i].sdk = s
  \/ \E r \in Executions : Opened(r) /\ exec[r].branch = b /\ exec[r].sdk = s
  \/ Settled(b) /\ base[b].sdk = s

ConversationsApart ==
  \A b, d \in BranchIds : \A s \in 1..Len(memory) : TalksIn(b, s) /\ TalksIn(d, s) => b = d

(* Whoever had a turn was in a conversation, which a rewind takes over.    *)
ConversationsKnown ==
  /\ \A i \in Turns : journal[i].sdk # None
  /\ \A b \in 1..made : base[b].sdk # None
  /\ \A r \in Executions :
       /\ Opened(r) => exec[r].sdk # None
       /\ exec[r].pc = "flush" => exec[r].told = exec[r].sdk

(* Only the first run of a rewound branch is fresh.                        *)
FreshOnce ==
  \A r \in Executions :
    /\ ~Live(r) \/ exec[r].pc = "recover" => ~exec[r].fresh /\ ~exec[r].flushed
    /\ Live(r) /\ exec[r].fresh => exec[r].branch # Main
    /\ exec[r].pc \in {"release", "fail_release"} => ~Untried(r)
    /\ Live(r) /\ exec[r].pc \notin {"recover", "hello"} /\ exec[r].branch # Main =>
         HasRun(exec[r].branch)
    /\ Live(r) /\ exec[r].pc # "recover" /\ ~Untried(r) => Settled(exec[r].branch)

(* Until the first rewind the session and main mean the same conversation. *)
MainIsSessions ==
  /\ doc.active = Main => doc.sdk = base[Main].sdk
  /\ \A r \in Executions :
       Live(r) /\ exec[r].branch = Main =>
         /\ exec[r].pc \in {"recover", "hello", "setup"} => exec[r].known = base[Main].sdk
         /\ exec[r].pc \in {"loop", "turn", "spoken", "called", "release"} =>
              exec[r].told = base[Main].sdk

OwnInv == ConversationsApart /\ ConversationsKnown /\ FreshOnce /\ MainIsSessions

-----------------------------------------------------------------------------
(* The inductive invariant behind RemembersLineage, for runs that flush    *)
(* after every turn.                                                       *)
FlushedTurns == OrderlyRewinds /\ "lost_flush" \notin Faults

(* The turns a conversation has the prompts of.                            *)
Recalled(s) == IF s = None THEN {} ELSE UNION {TurnOf(p) : p \in memory[s]}
Recalls(s, i) == Lineage(i) \cap Turns \subseteq Recalled(s)

(* The conversation of a turn holds those before it, that of a row its     *)
(* branch, but for a turn that is not flushed yet, and that of a run what  *)
(* the run has in hand.                                                    *)
TurnsRecalled == \A i \in Turns : Recalls(journal[i].sdk, i)

RowsRecall ==
  \A b \in BranchIds :
    (\A r \in Executions : exec[r].pc = "flush" => exec[r].branch # b) =>
      /\ On(b) = {} => Recalls(base[b].sdk, base[b].uuid)
      /\ \A i \in On(b) : Recalls(base[b].sdk, i)

RunsRecall ==
  \A r \in Executions :
    /\ Opened(r) => \A i \in On(exec[r].branch) : Recalls(exec[r].sdk, i)
    /\ exec[r].pc = "turn" => exec[r].tip # None
    /\ exec[r].pc \in {"spoken", "called"} =>
         /\ exec[r].prompt \in Lineage(exec[r].tip)
         /\ TurnBase(exec[r].prompt) = TurnBase(exec[r].tip)

RecallInv == TurnsRecalled /\ RowsRecall /\ RunsRecall
=============================================================================
