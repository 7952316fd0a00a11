--------------------------- MODULE ApprovalGateProofs ---------------------------
(***************************************************************************)
(* Theorems about ApprovalGate, for any calls, people, relaying clients    *)
(* and any faults: its types, and that a gated call runs only with an      *)
(* answer given after it asked.                                            *)
(***************************************************************************)
EXTENDS ApprovalGate, TLAPS

AnyChange(c) ==
  \/ HookStart(c) \/ HookRow(c) \/ RequestApproval(c) \/ NoteRequest(c) \/ Poll(c)
  \/ Decided(c) \/ KillCheck(c) \/ Expire(c) \/ NoteTimeout(c) \/ Deadline(c)

-----------------------------------------------------------------------------
(* The state stays of its type.                                            *)
LEMMA TypeInit == Init => TypeOK
  BY CallAssumption DEF Init, TypeOK, Stations, Deciders, Calls

LEMMA TypeStep == TypeOK /\ [Next]_vars => TypeOK'
<1> SUFFICES ASSUME TypeOK, [Next]_vars
             PROVE  TypeOK'
  OBVIOUS
<1>k. \A c \in Calls : Key(c) \in Inputs
  BY CallAssumption DEF Key, Calls
<1> USE DEF TypeOK
<1>1. ASSUME NEW c \in Calls, AnyChange(c)
      PROVE  TypeOK'
  <2>1. CASE HookStart(c)
    BY <2>1 DEF HookStart, Goto, Stations
  <2>2. CASE HookRow(c)
    BY <2>2 DEF HookRow, Goto, Stations, HookVerdict
  <2>3. CASE RequestApproval(c)
    BY <2>3, <1>k DEF RequestApproval, Goto, Stations, Requested
  <2>4. CASE NoteRequest(c)
    BY <2>4 DEF NoteRequest, Goto, Stations
  <2>5. CASE Poll(c)
    BY <2>5 DEF Poll, Goto, Stations
  <2>6. CASE Decided(c)
    BY <2>6 DEF Decided, Goto, Stations, RowOf
  <2>7. CASE KillCheck(c)
    BY <2>7 DEF KillCheck, Goto, Stations
  <2>8. CASE Expire(c)
    BY <2>8, <1>k DEF Expire, Goto, Stations, TimedOut
  <2>9. CASE NoteTimeout(c)
    BY <2>9 DEF NoteTimeout, Goto, Stations
  <2>10. CASE Deadline(c)
    BY <2>10 DEF Deadline
  <2> QED
    BY <1>1, <2>1, <2>2, <2>3, <2>4, <2>5, <2>6, <2>7, <2>8, <2>9, <2>10 DEF AnyChange
<1>2. ASSUME NEW d \in Deciders, NEW requests \in SUBSET Inputs, Sees(d, requests)
      PROVE  TypeOK'
  BY <1>2 DEF Sees, callVars
<1>3. ASSUME NEW d \in Deciders, NEW h \in Inputs, NEW status \in {"allow", "deny"},
             DecideApproval(d, h, status), view' \in [Deciders -> SUBSET Inputs]
      PROVE  TypeOK'
  BY <1>3 DEF DecideApproval, callVars
<1>4. ASSUME NEW p \in People, Pick(p) \/ Answer(p)
      PROVE  TypeOK'
  <2> p \in Deciders
    BY DEF Deciders
  <2>1. CASE Pick(p)
    BY <2>1, <1>2 DEF Pick, Pending
  <2>2. CASE Answer(p)
    <3>1. PICK h \in view[p], status \in {"allow", "deny"} :
            DecideApproval(p, h, status) /\ view' = [view EXCEPT ![p] = {}]
      BY <2>2 DEF Answer
    <3> QED
      BY <3>1, <1>3
  <2> QED
    BY <1>4, <2>1, <2>2
<1>5. ASSUME NEW r \in Relays, ListPending(r) \/ RelayApprovals(r)
      PROVE  TypeOK'
  <2> r \in Deciders
    BY DEF Deciders
  <2>1. CASE ListPending(r)
    BY <2>1, <1>2 DEF ListPending, Pending
  <2>2. CASE RelayApprovals(r)
    <3>1. PICK h \in view[r], status \in {"allow", "deny"} :
            DecideApproval(r, h, status) /\ view' = [view EXCEPT ![r] = @ \ {h}]
      BY <2>2 DEF RelayApprovals
    <3> QED
      BY <3>1, <1>3
  <2> QED
    BY <1>5, <2>1, <2>2
<1>6. CASE Kill
  BY <1>6 DEF Kill, callVars
<1>7. CASE ExecDies
  BY <1>7 DEF ExecDies, Stations
<1>8. CASE UNCHANGED vars
  BY <1>8 DEF vars, callVars
<1> QED
  BY <1>1, <1>4, <1>5, <1>6, <1>7, <1>8 DEF Next, PreToolUse, CanUseTool, AnyChange

(* Whatever is asked, answered, killed or dies, the gate's state stays of  *)
(* its type.                                                               *)
THEOREM TypeCorrect == Spec => []TypeOK
  BY TypeInit, TypeStep, PTL DEF Spec

-----------------------------------------------------------------------------
(* A call that was let through, or whose record stands at allow while it   *)
(* waits, has its own answer: the request it began with took the answer to *)
(* an earlier call off the record.                                         *)
Answered(c) ==
  \/ pc[c] \in {"decide_allow", "ran"}
  \/ Waiting(c) /\ record[Key(c)] = "allow"

AnswersAreOwn == \A c \in Gated : Answered(c) => c \in granted

LEMMA AnswersInit == Init => AnswersAreOwn
  BY CallAssumption DEF Init, AnswersAreOwn, Answered, Waiting

LEMMA AnswersStep == TypeOK /\ AnswersAreOwn /\ [Next]_vars => AnswersAreOwn'
<1> SUFFICES ASSUME TypeOK, AnswersAreOwn, [Next]_vars
             PROVE  AnswersAreOwn'
  OBVIOUS
<1>k. \A c \in Calls : Key(c) \in Inputs
  BY CallAssumption DEF Key, Calls
<1>g. Gated \subseteq Calls
  BY CallAssumption
<1> USE DEF TypeOK, AnswersAreOwn, Answered, Waiting
<1>1. ASSUME NEW c \in Calls, AnyChange(c)
      PROVE  AnswersAreOwn'
  <2>1. CASE HookStart(c)
    BY <2>1, <1>g DEF HookStart, Goto, Key
  <2>2. CASE HookRow(c)
    BY <2>2, <1>g DEF HookRow, Goto, HookVerdict, Key
  <2>3. CASE RequestApproval(c)
    BY <2>3, <1>g, <1>k DEF RequestApproval, Goto, Requested, Key
  <2>4. CASE NoteRequest(c)
    BY <2>4, <1>g DEF NoteRequest, Goto, Key
  <2>5. CASE Poll(c)
    BY <2>5, <1>g DEF Poll, Goto, Key
  <2>6. CASE Decided(c)
    BY <2>6, <1>g DEF Decided, Goto, Key
  <2>7. CASE KillCheck(c)
    BY <2>7, <1>g DEF KillCheck, Goto, Key
  <2>8. CASE Expire(c)
    BY <2>8, <1>g, <1>k DEF Expire, Goto, TimedOut, Key
  <2>9. CASE NoteTimeout(c)
    BY <2>9, <1>g DEF NoteTimeout, Goto, Key
  <2>10. CASE Deadline(c)
    BY <2>10, <1>g DEF Deadline, Key
  <2> QED
    BY <1>1, <2>1, <2>2, <2>3, <2>4, <2>5, <2>6, <2>7, <2>8, <2>9, <2>10 DEF AnyChange
<1>2. ASSUME NEW d \in Deciders, NEW h \in Inputs, NEW status \in {"allow", "deny"},
             DecideApproval(d, h, status)
      PROVE  AnswersAreOwn'
  BY <1>2, <1>g, <1>k DEF DecideApproval, callVars, Key
<1>3. ASSUME NEW p \in People, Pick(p) \/ Answer(p)
      PROVE  AnswersAreOwn'
  <2>1. CASE Pick(p)
    BY <2>1 DEF Pick, Sees, callVars, Key
  <2>2. CASE Answer(p)
    BY <2>2, <1>2 DEF Answer, Deciders
  <2> QED
    BY <1>3, <2>1, <2>2
<1>4. ASSUME NEW r \in Relays, ListPending(r) \/ RelayApprovals(r)
      PROVE  AnswersAreOwn'
  <2>1. CASE ListPending(r)
    BY <2>1 DEF ListPending, Sees, callVars, Key
  <2>2. CASE RelayApprovals(r)
    BY <2>2, <1>2 DEF RelayApprovals, Deciders
  <2> QED
    BY <1>4, <2>1, <2>2
<1>5. CASE Kill
  BY <1>5 DEF Kill, callVars, Key
<1>6. CASE ExecDies
  BY <1>6, <1>g DEF ExecDies, Settled, Key
<1>7. CASE UNCHANGED vars
  BY <1>7 DEF vars, callVars, Key
<1> QED
  BY <1>1, <1>3, <1>4, <1>5, <1>6, <1>7 DEF Next, PreToolUse, CanUseTool, AnyChange

(* gate.py: a gated call runs only with an allow written after its own     *)
(* request, whatever answers lie under its hash, are late, are given twice *)
(* or cross a kill, a timeout or the death of the execution.               *)
THEOREM OnlyAllowedRun == Spec => []AllowedByPerson
<1>1. TypeOK /\ AnswersAreOwn => AllowedByPerson
  BY DEF AnswersAreOwn, Answered, AllowedByPerson
<1> QED
  BY <1>1, TypeInit, TypeStep, AnswersInit, AnswersStep, PTL DEF Spec

-----------------------------------------------------------------------------
(* What the journal says of a call at each of its stations.                *)
Unasked == {"new", "hook", "ask", "note"}
Asked == {"wait", "look", "expire", "close", "decide_allow", "decide_deny"}

RowsFollow(c) ==
  /\ pc[c] \in Unasked => mirror[c] = "none"
  /\ pc[c] \in Asked => mirror[c] = "requested"
  /\ pc[c] \in Asked \cup {"ask", "note", "ran"} => audit[c] = "allowed"
  /\ pc[c] = "ran" /\ c \in Gated => mirror[c] = "allow"
  /\ pc[c] = "ask" => c \in Gated
  /\ pc[c] = "denied" => mirror[c] # "allow"
  /\ pc[c] = "denied" /\ audit[c] = "allowed" /\ mirror[c] = "requested" => dead

JournalFollows == \A c \in Calls : RowsFollow(c)

LEMMA JournalInit == Init => JournalFollows
  BY DEF Init, JournalFollows, RowsFollow, Unasked, Asked

LEMMA JournalStep == TypeOK /\ JournalFollows /\ [Next]_vars => JournalFollows'
<1> SUFFICES ASSUME TypeOK, JournalFollows, [Next]_vars, NEW b \in Calls
             PROVE  RowsFollow(b)'
  BY DEF JournalFollows
<1>b. RowsFollow(b)
  BY DEF JournalFollows
<1> USE DEF TypeOK, RowsFollow, Unasked, Asked
<1>1. ASSUME NEW c \in Calls, AnyChange(c)
      PROVE  RowsFollow(b)'
  <2>c. RowsFollow(c)
    BY DEF JournalFollows
  <2>1. CASE HookStart(c)
    BY <2>1, <1>b, <2>c DEF HookStart, Goto
  <2>2. CASE HookRow(c)
    BY <2>2, <1>b, <2>c DEF HookRow, Goto, HookVerdict
  <2>3. CASE RequestApproval(c)
    BY <2>3, <1>b, <2>c DEF RequestApproval, Goto
  <2>4. CASE NoteRequest(c)
    BY <2>4, <1>b, <2>c DEF NoteRequest, Goto
  <2>5. CASE Poll(c)
    BY <2>5, <1>b, <2>c DEF Poll, Goto
  <2>6. CASE Decided(c)
    BY <2>6, <1>b, <2>c DEF Decided, Goto, RowOf
  <2>7. CASE KillCheck(c)
    BY <2>7, <1>b, <2>c DEF KillCheck, Goto
  <2>8. CASE Expire(c)
    BY <2>8, <1>b, <2>c DEF Expire, Goto
  <2>9. CASE NoteTimeout(c)
    BY <2>9, <1>b, <2>c DEF NoteTimeout, Goto
  <2>10. CASE Deadline(c)
    BY <2>10, <1>b DEF Deadline
  <2> QED
    BY <1>1, <2>1, <2>2, <2>3, <2>4, <2>5, <2>6, <2>7, <2>8, <2>9, <2>10 DEF AnyChange
<1>2. ASSUME NEW p \in People, Pick(p) \/ Answer(p)
      PROVE  RowsFollow(b)'
  BY <1>2, <1>b DEF Pick, Answer, Sees, DecideApproval, callVars
<1>3. ASSUME NEW r \in Relays, ListPending(r) \/ RelayApprovals(r)
      PROVE  RowsFollow(b)'
  BY <1>3, <1>b DEF ListPending, RelayApprovals, Sees, DecideApproval, callVars
<1>4. CASE Kill
  BY <1>4, <1>b DEF Kill, callVars
<1>5. CASE ExecDies
  BY <1>5, <1>b DEF ExecDies, Settled
<1>6. CASE UNCHANGED vars
  BY <1>6, <1>b DEF vars, callVars
<1> QED
  BY <1>1, <1>2, <1>3, <1>4, <1>5, <1>6 DEF Next, PreToolUse, CanUseTool, AnyChange

(* The rows of the transcript and what became of each call agree: what ran *)
(* was audited, and, if it was gated, shows an allow; what was refused     *)
(* shows none, and one whose request stays open was refused by a kill.     *)
THEOREM TranscriptTrue == Spec => []TranscriptAgrees
<1>1. JournalFollows => TranscriptAgrees
  BY DEF JournalFollows, RowsFollow, TranscriptAgrees
<1> QED
  BY <1>1, TypeInit, TypeStep, JournalInit, JournalStep, PTL DEF Spec

-----------------------------------------------------------------------------
(* While no call is made beside its twin, the record under a hash is one   *)
(* call's at a time: it is not at timeout before that call's own deadline, *)
(* and not pending once the call was answered.                             *)
UnderWay(c) == pc[c] \notin Settled \cup {"new"}

NoTwins ==
  \A c, t \in Calls : c # t /\ Key(c) = Key(t) => ~(UnderWay(c) /\ UnderWay(t))

RecordIsOwn ==
  \A c \in Calls :
    /\ Waiting(c) /\ pc[c] # "close" => record[Key(c)] # "timeout"
    /\ pc[c] \in {"decide_allow", "decide_deny", "close"} => record[Key(c)] # "pending"

OwnRecords == NoTwins /\ RecordIsOwn /\ NothingLingers

LEMMA OwnInit == Init => OwnRecords
  BY CallAssumption DEF Init, OwnRecords, NoTwins, UnderWay, RecordIsOwn, Waiting, NothingLingers

LEMMA TwinsStep ==
  ASSUME TypeOK, NoTwins, [Next]_vars, "parallel_twins" \notin Faults
  PROVE  NoTwins'
<1> USE DEF TypeOK, NoTwins, UnderWay, Key, Settled
<1>1. ASSUME NEW c \in Calls, AnyChange(c)
      PROVE  NoTwins'
  <2>1. CASE HookStart(c)
    BY <2>1 DEF HookStart, Goto
  <2>2. CASE ~HookStart(c)
    <3>1. \A t \in Calls : pc'[t] \notin Settled \cup {"new"} => UnderWay(t)
      BY <1>1, <2>2 DEF AnyChange, HookRow, RequestApproval, NoteRequest, Poll, Decided,
                         KillCheck, Expire, NoteTimeout, Deadline, Goto
    <3> QED
      BY <3>1
  <2> QED
    BY <2>1, <2>2
<1>2. ASSUME pc' = pc
      PROVE  NoTwins'
  BY <1>2
<1>3. CASE ExecDies
  BY <1>3 DEF ExecDies
<1>4. CASE \E p \in People : Pick(p) \/ Answer(p)
  BY <1>4, <1>2 DEF Pick, Answer, Sees, DecideApproval, callVars
<1>5. CASE \E r \in Relays : ListPending(r) \/ RelayApprovals(r)
  BY <1>5, <1>2 DEF ListPending, RelayApprovals, Sees, DecideApproval, callVars
<1>6. CASE Kill \/ UNCHANGED vars
  BY <1>6, <1>2 DEF Kill, vars, callVars
<1> QED
  BY <1>1, <1>3, <1>4, <1>5, <1>6 DEF Next, PreToolUse, CanUseTool, AnyChange

LEMMA RecordStep ==
  ASSUME TypeOK, NoTwins, RecordIsOwn, [Next]_vars
  PROVE  RecordIsOwn'
<1>k. \A c \in Calls : Key(c) \in Inputs
  BY CallAssumption DEF Key, Calls
<1> USE DEF TypeOK, RecordIsOwn, Waiting
<1>1. ASSUME NEW c \in Calls, AnyChange(c)
      PROVE  RecordIsOwn'
  <2>t. \A t \in Calls \ {c} : Key(t) = Key(c) /\ UnderWay(c) => ~Waiting(t)
    BY DEF NoTwins, UnderWay, Settled
  <2>1. CASE HookStart(c) \/ HookRow(c)
    BY <2>1 DEF HookStart, HookRow, HookVerdict, Goto, Key
  <2>2. CASE RequestApproval(c)
    BY <2>2, <2>t, <1>k DEF RequestApproval, Goto, Requested, UnderWay, Settled, Key
  <2>3. CASE NoteRequest(c) \/ Poll(c) \/ KillCheck(c)
    BY <2>3 DEF NoteRequest, Poll, KillCheck, Goto, Key
  <2>4. CASE Decided(c) \/ NoteTimeout(c)
    BY <2>4 DEF Decided, NoteTimeout, Goto, Key
  <2>5. CASE Expire(c)
    BY <2>5, <2>t, <1>k DEF Expire, Goto, TimedOut, UnderWay, Settled, Key
  <2>6. CASE Deadline(c)
    BY <2>6 DEF Deadline, Key
  <2> QED
    BY <1>1, <2>1, <2>2, <2>3, <2>4, <2>5, <2>6 DEF AnyChange
<1>2. ASSUME NEW d \in Deciders, NEW h \in Inputs, NEW status \in {"allow", "deny"},
             DecideApproval(d, h, status)
      PROVE  RecordIsOwn'
  <2>1. \A c \in Calls : record'[Key(c)] \in {record[Key(c)], "allow", "deny"}
    BY <1>2, <1>k DEF DecideApproval, Key
  <2>2. pc' = pc
    BY <1>2 DEF DecideApproval, callVars
  <2> QED
    BY <2>1, <2>2 DEF Key
<1>3. CASE \E p \in People : Pick(p) \/ Answer(p)
  BY <1>3, <1>2 DEF Pick, Answer, Sees, callVars, Deciders, Key
<1>4. CASE \E r \in Relays : ListPending(r) \/ RelayApprovals(r)
  BY <1>4, <1>2 DEF ListPending, RelayApprovals, Sees, callVars, Deciders, Key
<1>5. CASE Kill \/ UNCHANGED vars
  BY <1>5 DEF Kill, vars, callVars, Key
<1>6. CASE ExecDies
  BY <1>6 DEF ExecDies, Settled, Key
<1> QED
  BY <1>1, <1>3, <1>4, <1>5, <1>6 DEF Next, PreToolUse, CanUseTool, AnyChange

LEMMA LingerStep ==
  ASSUME TypeOK, JournalFollows, RecordIsOwn, NothingLingers, [Next]_vars
  PROVE  NothingLingers'
<1>k. \A c \in Calls : Key(c) \in Inputs
  BY CallAssumption DEF Key, Calls
<1>g. Gated \subseteq Calls
  BY CallAssumption
<1>r. \A c \in Calls : RowsFollow(c)
  BY DEF JournalFollows
<1> USE DEF TypeOK, NothingLingers, Waiting, Settled
<1>1. ASSUME NEW c \in Calls, AnyChange(c)
      PROVE  NothingLingers'
  <2>1. CASE HookStart(c) \/ HookRow(c)
    BY <2>1, <1>g, <1>r DEF HookStart, HookRow, HookVerdict, Goto, Key, RowsFollow, Unasked
  <2>2. CASE RequestApproval(c)
    BY <2>2, <1>g, <1>k, <1>r DEF RequestApproval, Goto, Requested, Key, RowsFollow, Unasked
  <2>3. CASE NoteRequest(c) \/ Poll(c) \/ KillCheck(c)
    BY <2>3, <1>g, <1>r DEF NoteRequest, Poll, KillCheck, Goto, Key, RowsFollow, Asked
  <2>4. CASE Decided(c) \/ NoteTimeout(c)
    BY <2>4, <1>g DEF Decided, NoteTimeout, Goto, Key, RecordIsOwn
  <2>5. CASE Expire(c)
    BY <2>5, <1>g, <1>k DEF Expire, Goto, TimedOut, Key
  <2>6. CASE Deadline(c)
    BY <2>6, <1>g DEF Deadline, Key
  <2> QED
    BY <1>1, <2>1, <2>2, <2>3, <2>4, <2>5, <2>6 DEF AnyChange
<1>2. ASSUME NEW d \in Deciders, NEW h \in Inputs, NEW status \in {"allow", "deny"},
             DecideApproval(d, h, status)
      PROVE  NothingLingers'
  <2>1. \A c \in Calls : record'[Key(c)] = "pending" => record[Key(c)] = "pending"
    BY <1>2, <1>k DEF DecideApproval, Key
  <2>2. pc' = pc /\ mirror' = mirror
    BY <1>2 DEF DecideApproval, callVars
  <2> QED
    BY <2>1, <2>2, <1>g DEF Key
<1>3. CASE \E p \in People : Pick(p) \/ Answer(p)
  BY <1>3, <1>2 DEF Pick, Answer, Sees, callVars, Deciders, Key
<1>4. CASE \E r \in Relays : ListPending(r) \/ RelayApprovals(r)
  BY <1>4, <1>2 DEF ListPending, RelayApprovals, Sees, callVars, Deciders, Key
<1>5. CASE Kill \/ UNCHANGED vars
  BY <1>5 DEF Kill, vars, callVars, Key
<1>6. CASE ExecDies
  BY <1>6, <1>g DEF ExecDies, Key
<1> QED
  BY <1>1, <1>3, <1>4, <1>5, <1>6 DEF Next, PreToolUse, CanUseTool, AnyChange

LEMMA OwnStep ==
  ASSUME "parallel_twins" \notin Faults
  PROVE  TypeOK /\ JournalFollows /\ OwnRecords /\ [Next]_vars => OwnRecords'
  BY TwinsStep, RecordStep, LingerStep DEF OwnRecords

(* As long as no call is made beside a waiting twin, an answered request   *)
(* leaves the queue of the pending for good, unless a twin asks anew.      *)
THEOREM QueueIsTrue == "parallel_twins" \notin Faults => (Spec => []NothingLingers)
<1> SUFFICES ASSUME "parallel_twins" \notin Faults
             PROVE  Spec => []NothingLingers
  OBVIOUS
<1>1. TypeOK /\ JournalFollows /\ OwnRecords /\ [Next]_vars => OwnRecords'
  BY OwnStep
<1>2. OwnRecords => NothingLingers
  BY DEF OwnRecords
<1> QED
  BY <1>1, <1>2, TypeInit, TypeStep, JournalInit, JournalStep, OwnInit, PTL DEF Spec

(* Under the same assumption no call is refused because an earlier one     *)
(* with the same input ran into its deadline.                              *)
THEOREM DeadlineIsOwn == "parallel_twins" \notin Faults => (Spec => OnlyOwnDeadline)
<1> SUFFICES ASSUME "parallel_twins" \notin Faults
             PROVE  Spec => OnlyOwnDeadline
  OBVIOUS
<1> DEFINE Refuses ==
      \A c \in Calls :
        pc[c] = "wait" /\ pc'[c] = "decide_deny" => record[Key(c)] # "timeout"
<1>1. TypeOK /\ JournalFollows /\ OwnRecords /\ [Next]_vars => OwnRecords'
  BY OwnStep
<1>2. OwnRecords => [Refuses]_vars
  BY DEF OwnRecords, RecordIsOwn, Waiting
<1> QED
  BY <1>1, <1>2, TypeInit, TypeStep, JournalInit, JournalStep, OwnInit, PTL
     DEF Spec, OnlyOwnDeadline

=============================================================================
