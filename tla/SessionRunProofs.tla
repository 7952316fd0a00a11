--------------------------- MODULE SessionRunProofs ---------------------------
(***************************************************************************)
(* What the runs of SessionRun show on two prompts and three executions,   *)
(* proved for any number of either and any durations.                      *)
(***************************************************************************)
EXTENDS SessionRun, SessionDocProofs, TLAPS

(* The stations a step can lead to are stations.                           *)
LEMMA StationTypes ==
  /\ Starting \subseteq Stations /\ Serving \subseteq Stations
  /\ Failing \subseteq Stations /\ HandingOff \subseteq Stations
  /\ {"off", "boot", "done"} \subseteq Stations
  BY DEF Stations, Leased

LEMMA InitTypeOK == Init => TypeOK
  <1> SUFFICES ASSUME Init PROVE TypeOK
    OBVIOUS
  <1>1. session \in SessionDocs
    BY DurationAssumption DEF Init, NewSession, SessionDocs, Statuses, NoLease
  <1>2. QED
    BY <1>1 DEF Init, TypeOK, Stations

(* The steps of a client keep the types.                                   *)
LEMMA ClientTypeOK ==
  ASSUME TypeOK, NEW m \in Prompts, Send(m) \/ SenderTriggerFails(m)
  PROVE  TypeOK'
  <1> USE DEF TypeOK
  <1>1. CASE Push(m)
    BY <1>1 DEF Push, docVars, runVars, journalVars
  <1>2. CASE SenderRead(m)
    BY <1>2 DEF SenderRead, docVars, runVars, journalVars
  <1>3. CASE SenderTrigger(m)
    BY <1>3 DEF SenderTrigger, docVars, journalVars, Goto, Stations
  <1>4. CASE SenderTriggerFails(m)
    BY <1>4 DEF SenderTriggerFails, docVars, runVars, journalVars
  <1>5. CASE SenderMark(m)
    BY <1>5, DocTypes DEF SenderMark, runVars, journalVars
  <1>6. QED
    BY <1>1, <1>2, <1>3, <1>4, <1>5 DEF Send

LEMMA AppendTypeOK ==
  ASSUME TypeOK, NEW r \in Executions, Append(r)
  PROVE  /\ cursor' \in [Executions -> Nat]
         /\ head' \in Nat
         /\ forked' \in BOOLEAN
  BY DEF TypeOK, Append

LEMMA GotoTypeOK ==
  ASSUME TypeOK, NEW r \in Executions, NEW s \in Stations, Goto(r, s)
  PROVE  pc' \in [Executions -> Stations]
  BY DEF TypeOK, Goto

LEMMA RaiseTypeOK ==
  ASSUME TypeOK, NEW r \in Executions, Raise(r)
  PROVE  pc' \in [Executions -> Stations]
  BY DEF TypeOK, Raise, Goto, Stations, Leased, Failing

(* The steps of an execution keep the types.                               *)
LEMMA ServeTypeOK ==
  ASSUME TypeOK, NEW r \in Executions, Serve(r)
  PROVE  TypeOK'
  <1> USE DEF TypeOK, docVars, journalVars
  <1> r \in Nat
    BY BoundAssumption DEF Executions
  <1>1. CASE Claim(r)
    BY <1>1, DocTypes DEF Claim, Goto, Stations, Leased, Starting
  <1>2. CASE Recover(r)
    BY <1>2 DEF Recover, Goto, Stations, Leased, Starting
  <1>3. CASE Hello(r)
    BY <1>3, AppendTypeOK DEF Hello, Goto, Stations, Leased, Serving
  <1>4. CASE Setup(r)
    BY <1>4 DEF Setup, Goto, Stations, Leased, Serving, Failing
  <1>5. CASE LoopTop(r)
    BY <1>5 DEF LoopTop, Goto, Stations, Leased, Serving
  <1>6. CASE Peek(r)
    BY <1>6 DEF Peek, Goto, Stations, Leased, Serving, Queue
  <1>7. CASE IdlePoll(r)
    BY <1>7 DEF IdlePoll, Goto, Stations, Leased, Serving
  <1>8. CASE JournalPrompt(r)
    <2>1. journaled' \in [Prompts -> Nat]
      BY <1>8 DEF JournalPrompt
    <2>2. QED
      BY <1>8, <2>1, AppendTypeOK DEF JournalPrompt, Goto, Stations, Leased, Serving
  <1>9. CASE Consume(r)
    <2>1. PICK m \in Prompts :
            IF inbox[m] = "deleted"
            THEN UNCHANGED inbox /\ Raise(r)
            ELSE inbox' = [inbox EXCEPT ![m] = "consumed"] /\ Goto(r, "turn")
      BY <1>9 DEF Consume
    <2>2. pc' \in [Executions -> Stations]
      BY <2>1, RaiseTypeOK DEF Goto, Stations, Leased, Serving
    <2>3. QED
      BY <1>9, <2>1, <2>2 DEF Consume
  <1>10. CASE Turn(r)
    BY <1>10, AppendTypeOK DEF Turn, Goto, Stations, Leased, Serving
  <1>11. CASE Flush(r)
    <2>1. pc' \in [Executions -> Stations]
      BY ZenonT(60), <1>11, RaiseTypeOK DEF Flush, Goto, Stations, Leased, Serving
    <2>2. QED
      BY <1>11, <2>1 DEF Flush
  <1>12. CASE Tail(r)
    BY <1>12 DEF Tail, Goto, Stations, Leased, Serving
  <1>13. CASE Bye(r)
    BY <1>13, AppendTypeOK DEF Bye, Goto, Stations, Leased, Serving
  <1>14. CASE Release(r)
    BY <1>14, DocTypes, RaiseTypeOK DEF Release, Goto, Stations, HandingOff
  <1>15. CASE FailRecord(r)
    BY <1>15, AppendTypeOK DEF FailRecord, Goto, Stations, Leased, Failing
  <1>16. CASE FailRelease(r)
    BY <1>16, DocTypes DEF FailRelease, Goto, Stations
  <1>17. QED
    BY <1>1, <1>2, <1>3, <1>4, <1>5, <1>6, <1>7, <1>8, <1>9, <1>10, <1>11,
       <1>12, <1>13, <1>14, <1>15, <1>16 DEF Serve

LEMMA HandOffTypeOK ==
  ASSUME TypeOK, NEW r \in Executions, HandOff(r)
  PROVE  TypeOK'
  <1> USE DEF TypeOK, docVars, journalVars, Goto, Stations, HandingOff
  <1>1. CASE Handoff(r)
    BY <1>1 DEF Handoff
  <1>2. CASE HandoffRead(r)
    BY <1>2 DEF HandoffRead
  <1>3. CASE HandoffTrigger(r)
    BY <1>3 DEF HandoffTrigger
  <1>4. CASE HandoffMark(r)
    BY <1>4, DocTypes DEF HandoffMark
  <1>5. QED
    BY <1>1, <1>2, <1>3, <1>4 DEF HandOff

(* Everything else an execution can do, or can happen to it.               *)
LEMMA HazardTypeOK ==
  ASSUME TypeOK, NEW r \in Executions,
         IdleLapse(r) \/ Beat(r) \/ Crash(r) \/ StoreError(r) \/ ReleaseReplyLost(r)
  PROVE  TypeOK'
  <1> USE DEF TypeOK, docVars, journalVars
  <1>1. CASE IdleLapse(r)
    BY <1>1 DEF IdleLapse, Goto, Stations, Leased, Serving
  <1>2. CASE Beat(r)
    BY <1>2, DocTypes DEF Beat
  <1>3. CASE Crash(r)
    BY <1>3 DEF Crash, Goto, Stations
  <1>4. CASE StoreError(r)
    BY <1>4, RaiseTypeOK DEF StoreError
  <1>5. CASE ReleaseReplyLost(r)
    BY <1>5, RaiseTypeOK, DocTypes DEF ReleaseReplyLost
  <1>6. QED
    BY <1>1, <1>2, <1>3, <1>4, <1>5

LEMMA OperatorTypeOK ==
  ASSUME TypeOK, Tick \/ Kill \/ DeleteCheck \/ Delete
  PROVE  TypeOK'
  <1> USE DEF TypeOK, runVars, journalVars
  <1>1. CASE Tick
    BY <1>1, DocTypes DEF Tick
  <1>2. CASE Kill
    BY <1>2, DocTypes DEF Kill
  <1>3. CASE DeleteCheck
    BY <1>3 DEF DeleteCheck
  <1>4. CASE Delete
    BY <1>4, DocTypes DEF Delete
  <1>5. QED
    BY <1>1, <1>2, <1>3, <1>4

LEMMA NextTypeOK == TypeOK /\ [Next]_vars => TypeOK'
  <1> SUFFICES ASSUME TypeOK, [Next]_vars PROVE TypeOK'
    OBVIOUS
  <1>1. CASE UNCHANGED vars
    BY <1>1 DEF TypeOK, vars
  <1>2. CASE Next
    BY <1>2, ClientTypeOK, ServeTypeOK, HandOffTypeOK, HazardTypeOK, OperatorTypeOK
       DEF Next
  <1>3. QED
    BY <1>1, <1>2

(* The variables keep their types, whatever goes wrong.                    *)
THEOREM TypeCorrect == Spec => []TypeOK
  <1>1. QED
    BY InitTypeOK, NextTypeOK, PTL DEF Spec

-----------------------------------------------------------------------------
(* The lease.                                                              *)

LEMMA InitLeaseInv == Init => LeaseInv
  <1> SUFFICES ASSUME Init PROVE LeaseInv
    OBVIOUS
  <1> \A r \in Executions : r # 0
    BY BoundAssumption DEF Executions
  <1> QED
    BY DEF Init, NewSession, LeaseInv, HolderIsNamed, HolderIsLive, LostIsDead,
       OthersAreNotNamed, CursorAtHead, SeqsUnique, LiveLeaseIsRunning, LeaseActive,
       NoLease, Leased, Starting, Serving, Failing, HandingOff

(* A step that only moves one execution along, the document untouched,     *)
(* keeps the invariant unless it enters the leased stations or the handoff.*)
LEMMA MoveKeepsLease ==
  ASSUME TypeOK, LeaseInv, NEW r \in Executions, NEW s \in Stations, Goto(r, s),
         UNCHANGED <<session, lost, cursor, head, forked>>,
         s \in Leased => pc[r] \in Leased \ {"recover"} /\ s \notin Starting,
         s \in HandingOff => pc[r] \in HandingOff,
         s \in {"off", "boot"} => pc[r] = "off"
  PROVE  LeaseInv'
  BY DEF TypeOK, LeaseInv, Goto, HolderIsNamed, HolderIsLive, LostIsDead,
     OthersAreNotNamed, CursorAtHead, SeqsUnique, LiveLeaseIsRunning, LeaseActive,
     IsDead, Stations, Leased, Starting, Serving, Failing, HandingOff

(* So does one that appends a record on the way: the only writer moves the *)
(* head along with its cursor.                                             *)
LEMMA AppendKeepsLease ==
  ASSUME TypeOK, LeaseInv, NEW r \in Executions, NEW s \in Leased \ Starting,
         Goto(r, s), Append(r), pc[r] \in Leased \ {"recover"},
         UNCHANGED <<session, lost>>
  PROVE  LeaseInv'
  <1>1. \A q \in Executions \ {r} : pc[q] \notin Leased
    BY DEF LeaseInv, HolderIsNamed
  <1>2. cursor[r] >= head /\ cursor[r] \in Nat /\ head \in Nat
    BY DEF LeaseInv, CursorAtHead, TypeOK
  <1>3. CursorAtHead' /\ SeqsUnique'
    BY <1>1, <1>2 DEF TypeOK, LeaseInv, CursorAtHead, SeqsUnique, Append, Goto
  <1>4. HolderIsNamed' /\ HolderIsLive' /\ LostIsDead'
    BY <1>1 DEF TypeOK, LeaseInv, HolderIsNamed, HolderIsLive, LostIsDead, IsDead,
       Goto, Leased, Starting, Serving, Failing
  <1>5. OthersAreNotNamed'
    BY DEF TypeOK, LeaseInv, OthersAreNotNamed, Goto, Leased, Starting, Serving,
       Failing, HandingOff
  <1>6. LiveLeaseIsRunning'
    BY DEF LeaseInv, LiveLeaseIsRunning, LeaseActive
  <1>7. QED
    BY <1>3, <1>4, <1>5, <1>6 DEF LeaseInv

(* A step that touches nothing the invariant speaks of.                    *)
LEMMA QuietKeepsLease ==
  ASSUME LeaseInv, UNCHANGED <<session, pc, lost, cursor, head, forked>>
  PROVE  LeaseInv'
  BY DEF LeaseInv, HolderIsNamed, HolderIsLive, LostIsDead, OthersAreNotNamed,
     CursorAtHead, SeqsUnique, LiveLeaseIsRunning, LeaseActive, IsDead

(* mark_starting leaves the lease alone, and skips a live run.             *)
LEMMA MarkKeepsLease ==
  ASSUME TypeOK, LeaseInv, session' = MarkStarting(session)
  PROVE  /\ session'.lease_id = session.lease_id
         /\ session'.lease_left = session.lease_left
         /\ IsDead(session)' <=> IsDead(session)
         /\ LiveLeaseIsRunning'
  <1>1. CASE IsDead(session) \/ (session.status = "running" /\ LeaseActive(session))
    <2>1. session' = session
      BY <1>1 DEF MarkStarting
    <2>2. QED
      BY <2>1 DEF LeaseInv, LiveLeaseIsRunning, LeaseActive, IsDead
  <1>2. CASE ~(IsDead(session) \/ (session.status = "running" /\ LeaseActive(session)))
    <2>1. session' = [session EXCEPT !.status = "starting", !.start_left = StartGrace]
      BY <1>2 DEF MarkStarting
    <2>2. ~LeaseActive(session)
      BY <1>2 DEF LeaseInv, LiveLeaseIsRunning, IsDead
    <2>3. QED
      BY <1>2, <2>1, <2>2 DEF TypeOK, SessionDocs, LiveLeaseIsRunning, LeaseActive, IsDead
  <1>3. QED
    BY <1>1, <1>2

(* A successful claim finds no execution between its claim and release.    *)
LEMMA ClaimFindsNone ==
  ASSUME LeaseInv, NEW r \in Executions, pc[r] = "boot", CanClaim(session, r)
  PROVE  \A q \in Executions : pc[q] \notin Leased
  <1> SUFFICES ASSUME NEW q \in Executions, pc[q] \in Leased PROVE FALSE
    OBVIOUS
  <1>1. session.lease_id = q /\ q # r
    BY DEF LeaseInv, HolderIsNamed, Leased, Starting, Serving, Failing
  <1>2. session.exists /\ ~LeaseActive(session)
    BY <1>1 DEF CanClaim, IsDead
  <1>3. ~(session.lease_left > 0)
    BY <1>2 DEF LeaseActive
  <1>4. lost[q]
    BY <1>3 DEF LeaseInv, HolderIsLive
  <1>5. QED
    BY <1>4 DEF LeaseInv, LostIsDead, CanClaim

LEMMA ClaimKeepsLease ==
  ASSUME TypeOK, LeaseInv, NEW r \in Executions, Claim(r)
  PROVE  LeaseInv'
  <1>1. CASE ~CanClaim(session, r)
    BY <1>1, MoveKeepsLease DEF Claim, journalVars, Stations, Leased, Starting,
       Serving, Failing, HandingOff
  <1>2. CASE CanClaim(session, r)
    <2> USE DEF Claim, journalVars, Goto
    <2>1. \A q \in Executions : pc[q] \notin Leased
      BY <1>2, ClaimFindsNone
    <2>2. /\ session'.lease_id = r /\ session'.lease_left = LeaseTTL
          /\ session'.status = "running" /\ LeaseTTL > 0
      <3>1. session' = Claimed(session, r) /\ session \in SessionDocs
        BY <1>2 DEF TypeOK
      <3>2. LeaseTTL > 0
        BY DurationAssumption
      <3>3. QED
        BY <3>1, <3>2 DEF Claimed, SessionDocs
    <2>3. /\ pc' = [pc EXCEPT ![r] = "recover"]
          /\ \A q \in Executions : pc'[q] \in Leased => q = r
      BY <1>2, <2>1 DEF TypeOK
    <2>4. HolderIsNamed' /\ HolderIsLive'
      BY <2>2, <2>3 DEF HolderIsNamed, HolderIsLive
    <2>5. LostIsDead'
      BY <1>2, <2>3 DEF TypeOK, LeaseInv, LostIsDead, Starting
    <2>6. OthersAreNotNamed'
      BY <2>2, <2>3 DEF TypeOK, OthersAreNotNamed, HandingOff
    <2>7. CursorAtHead' /\ SeqsUnique' /\ LiveLeaseIsRunning'
      BY <2>2, <2>3 DEF TypeOK, LeaseInv, CursorAtHead, SeqsUnique, LiveLeaseIsRunning
    <2>8. QED
      BY <2>4, <2>5, <2>6, <2>7 DEF LeaseInv
  <1>3. QED
    BY <1>1, <1>2

LEMMA RecoverKeepsLease ==
  ASSUME TypeOK, LeaseInv, NEW r \in Executions, Recover(r)
  PROVE  LeaseInv'
  BY DEF TypeOK, Recover, docVars, journalVars, LeaseInv, Goto, HolderIsNamed,
     HolderIsLive, LostIsDead, OthersAreNotNamed, CursorAtHead, SeqsUnique,
     LiveLeaseIsRunning, LeaseActive, IsDead, Leased, Starting, Serving, Failing,
     HandingOff

(* A release by the holder, after which no execution is leased.            *)
LEMMA ReleaseKeepsLease ==
  ASSUME TypeOK, LeaseInv, NEW r \in Executions, pc[r] \in Leased \ Starting,
         session' = Released(session), NEW s \in {"handoff", "done"}, Goto(r, s),
         UNCHANGED <<lost, cursor, head, forked>>
  PROVE  LeaseInv'
  <1>1. session'.lease_id = 0 /\ session'.lease_left = 0
    BY DEF Released, TypeOK, SessionDocs, NoLease
  <1>2. \A q \in Executions : q # 0 /\ pc'[q] \notin Leased
    BY BoundAssumption DEF Executions, LeaseInv, HolderIsNamed, Goto, TypeOK, Leased,
       Starting, Serving, Failing
  <1>3. LostIsDead'
    BY <1>2 DEF LeaseInv, LostIsDead, Goto, TypeOK, Starting
  <1>4. QED
    BY <1>1, <1>2, <1>3 DEF LeaseInv, HolderIsNamed, HolderIsLive, OthersAreNotNamed,
       CursorAtHead, SeqsUnique, LiveLeaseIsRunning, LeaseActive

LEMMA BeatKeepsLease ==
  ASSUME TypeOK, LeaseInv, NEW r \in Executions, Beat(r)
  PROVE  LeaseInv'
  <1> USE DEF journalVars
  <1>1. CASE CanRenew(session, r)
    <2>1. session' = Renewed(session) /\ UNCHANGED <<pc, lost, cursor, head, forked>>
      BY <1>1 DEF Beat
    <2>2. /\ session' = [session EXCEPT !.lease_left = LeaseTTL] /\ LeaseTTL > 0
      BY <2>1, DurationAssumption DEF Renewed
    <2>3. pc[r] \in Leased /\ ~lost[r]
      BY <1>1 DEF Beat, Beating, Leased, CanRenew, LeaseInv, OthersAreNotNamed
    <2>4. LeaseActive(session)
      BY <1>1, <2>3 DEF LeaseInv, HolderIsLive, LeaseActive, CanRenew, IsDead
    <2>5. LiveLeaseIsRunning'
      BY <2>2, <2>4 DEF LeaseInv, LiveLeaseIsRunning, LeaseActive, TypeOK, SessionDocs
    <2>6. IsDead(session)' <=> IsDead(session)
      BY <2>2 DEF IsDead, TypeOK, SessionDocs
    <2>7. HolderIsNamed' /\ HolderIsLive' /\ LostIsDead' /\ OthersAreNotNamed'
      BY <2>1, <2>2, <2>6 DEF LeaseInv, HolderIsNamed, HolderIsLive, LostIsDead,
         OthersAreNotNamed, TypeOK, SessionDocs
    <2>8. QED
      BY <2>1, <2>5, <2>7 DEF LeaseInv, CursorAtHead, SeqsUnique
  <1>2. CASE ~CanRenew(session, r)
    <2>1. /\ session' = session /\ lost' = [lost EXCEPT ![r] = TRUE]
          /\ UNCHANGED <<pc, cursor, head, forked>>
      BY <1>2 DEF Beat
    <2>2. pc[r] \in Leased => IsDead(session)
      BY <1>2 DEF CanRenew, LeaseInv, HolderIsNamed
    <2>3. pc[r] \notin {"off", "boot"} \cup Starting
      BY DEF Beat, Beating, Starting, Serving, Failing, HandingOff
    <2>4. LostIsDead'
      BY <2>1, <2>2, <2>3 DEF LeaseInv, LostIsDead, TypeOK
    <2>5. HolderIsLive'
      BY <2>1 DEF LeaseInv, HolderIsLive, TypeOK
    <2>6. QED
      BY <2>1, <2>4, <2>5 DEF LeaseInv, HolderIsNamed, OthersAreNotNamed, CursorAtHead,
         SeqsUnique, LiveLeaseIsRunning, LeaseActive
  <1>3. QED
    BY <1>1, <1>2

(* The handoff, whose trigger starts another execution on its way.         *)
LEMMA HandOffKeepsLease ==
  ASSUME TypeOK, LeaseInv, NEW r \in Executions, HandOff(r)
  PROVE  LeaseInv'
  <1> USE DEF docVars, journalVars
  <1>1. CASE Handoff(r)
    BY <1>1, MoveKeepsLease
       DEF Handoff, Stations, Leased, Starting, Serving, Failing, HandingOff
  <1>2. CASE HandoffRead(r)
    BY <1>2, MoveKeepsLease
       DEF HandoffRead, Stations, Leased, Starting, Serving, Failing, HandingOff
  <1>3. CASE HandoffTrigger(r)
    <2>1. PICK q \in Executions :
            pc[q] = "off" /\ pc' = [pc EXCEPT ![r] = "h_mark", ![q] = "boot"]
      BY <1>3 DEF HandoffTrigger, Fresh
    <2>2. UNCHANGED <<session, lost, cursor, head, forked>> /\ pc[r] = "h_trigger"
      BY <1>3 DEF HandoffTrigger
    <2>3. QED
      BY <2>1, <2>2 DEF TypeOK, LeaseInv, HolderIsNamed, HolderIsLive, LostIsDead,
         OthersAreNotNamed, CursorAtHead, SeqsUnique, LiveLeaseIsRunning, LeaseActive,
         IsDead, Leased, Starting, Serving, Failing, HandingOff
  <1>4. CASE HandoffMark(r)
    <2>1. /\ session' = MarkStarting(session) /\ UNCHANGED <<lost, cursor, head, forked>>
          /\ pc' = [pc EXCEPT ![r] = "done"]
      BY <1>4 DEF HandoffMark, Goto
    <2>2. QED
      BY <2>1, MarkKeepsLease DEF TypeOK, LeaseInv, HolderIsNamed, HolderIsLive,
         LostIsDead, OthersAreNotNamed, CursorAtHead, SeqsUnique, Leased, Starting,
         Serving, Failing, HandingOff
  <1>5. QED
    BY <1>1, <1>2, <1>3, <1>4 DEF HandOff

LEMMA ClientKeepsLease ==
  ASSUME TypeOK, LeaseInv, NEW m \in Prompts, Send(m) \/ SenderTriggerFails(m)
  PROVE  LeaseInv'
  <1> USE DEF docVars, runVars, journalVars
  <1>1. CASE Push(m) \/ SenderRead(m) \/ SenderTriggerFails(m)
    BY <1>1, QuietKeepsLease DEF Push, SenderRead, SenderTriggerFails
  <1>2. CASE SenderTrigger(m)
    <2>1. PICK q \in Executions : pc[q] = "off" /\ Goto(q, "boot")
      BY <1>2 DEF SenderTrigger, Fresh
    <2>2. QED
      BY <1>2, <2>1, MoveKeepsLease
         DEF SenderTrigger, Stations, Leased, Starting, Serving, Failing, HandingOff
  <1>3. CASE SenderMark(m)
    <2>1. /\ session' = MarkStarting(session)
          /\ UNCHANGED <<pc, lost, cursor, head, forked>>
      BY <1>3 DEF SenderMark
    <2>2. QED
      BY <2>1, MarkKeepsLease DEF LeaseInv, HolderIsNamed, HolderIsLive, LostIsDead,
         OthersAreNotNamed, CursorAtHead, SeqsUnique
  <1>4. QED
    BY <1>1, <1>2, <1>3 DEF Send

LEMMA ServeKeepsLease ==
  ASSUME TypeOK, LeaseInv, NEW r \in Executions, Serve(r)
  PROVE  LeaseInv'
  <1> USE DEF docVars, journalVars
  <1> DEFINE Along(s) == /\ Goto(r, s)
                         /\ UNCHANGED <<session, lost, cursor, head, forked>>
  <1> DEFINE Writes(s) == /\ Goto(r, s) /\ Append(r)
                          /\ UNCHANGED <<session, lost>>
  <1>a. ASSUME NEW s \in (Serving \cup {"fail", "done"}), Along(s), pc[r] \in Serving
        PROVE  LeaseInv'
    BY <1>a, MoveKeepsLease DEF Stations, Leased, Starting, Serving, Failing, HandingOff
  <1>b. ASSUME NEW s \in Leased \ Starting, Writes(s), pc[r] \in Leased \ {"recover"}
        PROVE  LeaseInv'
    BY <1>b, AppendKeepsLease
  <1> HIDE DEF Along, Writes
  <1>1. CASE Claim(r)
    BY <1>1, ClaimKeepsLease
  <1>2. CASE Recover(r)
    BY <1>2, RecoverKeepsLease
  <1>3. CASE Hello(r)
    <2>1. Writes("setup") /\ pc[r] = "hello"
      BY <1>3 DEF Hello, Writes
    <2>2. QED
      BY <2>1, <1>b DEF Leased, Starting, Serving
  <1>4. CASE Setup(r) \/ LoopTop(r) \/ Peek(r) \/ IdlePoll(r) \/ Tail(r)
    <2>1. /\ pc[r] \in Serving
          /\ \E s \in (Serving \cup {"fail", "done"}) : Along(s)
      BY <1>4 DEF Setup, LoopTop, Peek, IdlePoll, Tail, Along, Serving
    <2>2. QED
      BY <2>1, <1>a
  <1>5. CASE JournalPrompt(r)
    <2>1. Writes("consume") /\ pc[r] = "prompt"
      BY <1>5 DEF JournalPrompt, Writes
    <2>2. QED
      BY <2>1, <1>b DEF Leased, Starting, Serving
  <1>6. CASE Consume(r)
    <2>1. /\ pc[r] \in Serving
          /\ \E s \in (Serving \cup {"fail", "done"}) : Along(s)
      BY <1>6 DEF Consume, Raise, Along, Serving
    <2>2. QED
      BY <2>1, <1>a
  <1>7. CASE Turn(r)
    <2>1. CASE lost[r]
      <3>1. Along("flush") /\ pc[r] = "turn"
        BY <1>7, <2>1 DEF Turn, Along
      <3>2. QED
        BY <3>1, <1>a DEF Serving
    <2>2. CASE ~lost[r]
      <3>1. Writes("flush") /\ pc[r] = "turn"
        BY <1>7, <2>2 DEF Turn, Writes
      <3>2. QED
        BY <3>1, <1>b DEF Leased, Starting, Serving
    <2>3. QED
      BY <2>1, <2>2
  <1>8. CASE Flush(r)
    <2>1. /\ pc[r] \in Serving
          /\ \E s \in (Serving \cup {"fail", "done"}) : Along(s)
      BY <1>8 DEF Flush, Raise, Along, Serving
    <2>2. QED
      BY <2>1, <1>a
  <1>9. CASE Bye(r)
    <2>1. Writes("release") /\ pc[r] = "bye"
      BY <1>9 DEF Bye, Writes
    <2>2. QED
      BY <2>1, <1>b DEF Leased, Starting, Serving
  <1>10. CASE Release(r)
    <2>1. CASE session.exists
      BY <1>10, <2>1, ReleaseKeepsLease DEF Release, Leased, Starting, Serving
    <2>2. CASE ~session.exists
      <3>1. /\ pc[r] \in Serving
            /\ \E s \in (Serving \cup {"fail", "done"}) : Along(s)
        BY <1>10, <2>2 DEF Release, Raise, Along, Serving
      <3>2. QED
        BY <3>1, <1>a
    <2>3. QED
      BY <2>1, <2>2
  <1>11. CASE FailRecord(r)
    <2>1. /\ pc[r] \in Leased \ {"recover"}
          /\ \E s \in Leased \ Starting : Writes(s)
      BY <1>11 DEF FailRecord, Writes, Leased, Starting, Serving, Failing
    <2>2. QED
      BY <2>1, <1>b
  <1>12. CASE FailRelease(r)
    <2>1. CASE session.exists
      BY <1>12, <2>1, ReleaseKeepsLease DEF FailRelease, Leased, Starting, Serving, Failing
    <2>2. CASE ~session.exists
      BY <1>12, <2>2, MoveKeepsLease
         DEF FailRelease, Stations, Leased, Starting, Serving, Failing, HandingOff
    <2>3. QED
      BY <2>1, <2>2
  <1>13. QED
    BY <1>1, <1>2, <1>3, <1>4, <1>5, <1>6, <1>7, <1>8, <1>9, <1>10, <1>11, <1>12
       DEF Serve

LEMMA HazardKeepsLease ==
  ASSUME LeaseKept, TypeOK, LeaseInv, NEW r \in Executions,
         IdleLapse(r) \/ Beat(r) \/ Crash(r) \/ StoreError(r) \/ ReleaseReplyLost(r)
  PROVE  LeaseInv'
  <1> USE DEF docVars, journalVars
  <1>1. CASE IdleLapse(r)
    BY <1>1, MoveKeepsLease
       DEF IdleLapse, Stations, Leased, Starting, Serving, Failing, HandingOff
  <1>2. CASE Beat(r)
    BY <1>2, BeatKeepsLease
  <1>3. CASE Crash(r)
    BY <1>3, MoveKeepsLease
       DEF Crash, Stations, Leased, Starting, Serving, Failing, HandingOff
  <1>4. CASE StoreError(r)
    BY <1>4, MoveKeepsLease
       DEF StoreError, Raise, Stations, Leased, Starting, Serving, Failing, HandingOff
  <1>5. CASE ReleaseReplyLost(r)
    BY <1>5 DEF ReleaseReplyLost, LeaseKept
  <1>6. QED
    BY <1>1, <1>2, <1>3, <1>4, <1>5

(* The clock waits for the holder's heartbeat; the operator only kills.    *)
LEMMA OperatorKeepsLease ==
  ASSUME LeaseKept, TypeOK, LeaseInv, Tick \/ Kill \/ DeleteCheck \/ Delete
  PROVE  LeaseInv'
  <1> USE DEF runVars, journalVars
  <1> DEFINE left == IF session.lease_left > 0 THEN session.lease_left - 1 ELSE 0
  <1>1. CASE Tick
    <2>1. /\ Timely /\ session' = Aged(session)
          /\ UNCHANGED <<pc, lost, cursor, head, forked>>
      BY <1>1 DEF Tick, LeaseKept
    <2>2. /\ session'.lease_id = session.lease_id /\ session'.lease_left = left
          /\ session'.status = session.status /\ session'.exists = session.exists
          /\ session'.disabled = session.disabled
      BY <2>1 DEF Aged, TypeOK, SessionDocs
    <2>3. session.lease_left \in Nat
      BY DurationAssumption DEF TypeOK, SessionDocs
    <2>4. HolderIsLive'
      BY <2>1, <2>2, <2>3 DEF HolderIsLive, Timely
    <2>5. LiveLeaseIsRunning'
      BY <2>2, <2>3 DEF LeaseInv, LiveLeaseIsRunning, LeaseActive
    <2>6. LostIsDead' /\ HolderIsNamed' /\ OthersAreNotNamed'
      BY <2>1, <2>2 DEF LeaseInv, LostIsDead, HolderIsNamed, OthersAreNotNamed, IsDead
    <2>7. QED
      BY <2>1, <2>4, <2>5, <2>6 DEF LeaseInv, CursorAtHead, SeqsUnique
  <1>2. CASE Kill
    <2>1. /\ session'.disabled /\ session'.exists = session.exists
          /\ session'.status \in {session.status, "terminated"}
          /\ session'.lease_id = session.lease_id
          /\ session'.lease_left = session.lease_left
      BY <1>2 DEF Kill, Killed, Disabled, TypeOK, SessionDocs
    <2>2. UNCHANGED <<pc, lost, cursor, head, forked>>
      BY <1>2 DEF Kill
    <2>3. QED
      BY <2>1, <2>2 DEF LeaseInv, HolderIsNamed, HolderIsLive, LostIsDead,
         OthersAreNotNamed, CursorAtHead, SeqsUnique, LiveLeaseIsRunning, LeaseActive,
         IsDead
  <1>3. CASE DeleteCheck
    BY <1>3, QuietKeepsLease DEF DeleteCheck
  <1>4. CASE Delete
    <2>1. /\ ~session'.exists
          /\ session'.lease_id = session.lease_id
          /\ session'.lease_left = session.lease_left
      BY <1>4 DEF Delete, Deleted, TypeOK, SessionDocs
    <2>2. UNCHANGED <<pc, lost, cursor, forked>> /\ head' = 0
      BY <1>4 DEF Delete
    <2>3. CursorAtHead'
      BY <2>2 DEF CursorAtHead, TypeOK
    <2>4. QED
      BY <2>1, <2>2, <2>3 DEF LeaseInv, HolderIsNamed, HolderIsLive, LostIsDead,
         OthersAreNotNamed, SeqsUnique, LiveLeaseIsRunning, LeaseActive, IsDead
  <1>5. QED
    BY <1>1, <1>2, <1>3, <1>4

LEMMA NextKeepsLease == LeaseKept /\ TypeOK /\ LeaseInv /\ [Next]_vars => LeaseInv'
  <1> SUFFICES ASSUME LeaseKept, TypeOK, LeaseInv, [Next]_vars PROVE LeaseInv'
    OBVIOUS
  <1>1. CASE UNCHANGED vars
    BY <1>1, QuietKeepsLease DEF vars
  <1>2. CASE Next
    BY <1>2, ClientKeepsLease, ServeKeepsLease, HandOffKeepsLease, HazardKeepsLease,
       OperatorKeepsLease DEF Next
  <1>3. QED
    BY <1>1, <1>2

(* The lease invariant, for every instance whose lease can be relied on.   *)
THEOREM LeaseHolds ==
  ASSUME LeaseKept
  PROVE  Spec => [](TypeOK /\ LeaseInv)
  <1>1. Init => TypeOK /\ LeaseInv
    BY InitTypeOK, InitLeaseInv
  <1>2. TypeOK /\ LeaseInv /\ [Next]_vars => (TypeOK /\ LeaseInv)'
    BY NextTypeOK, NextKeepsLease
  <1>3. QED
    BY <1>1, <1>2, PTL DEF Spec

LEMMA LeaseInvGivesOneWriter == LeaseInv => OneWriter
  BY DEF LeaseInv, HolderIsNamed, OneWriter

(* The lease keeps two executions off one session: with heartbeats that    *)
(* get through, no two are ever between their claims and their releases,   *)
(* whatever crashes, fails, is killed or deleted in between.               *)
THEOREM ExclusiveExecution ==
  ASSUME LeaseKept
  PROVE  Spec => []OneWriter
  BY LeaseHolds, LeaseInvGivesOneWriter, PTL

(* No sequence number of the journal branch is given out twice.            *)
THEOREM JournalNeverForks ==
  ASSUME LeaseKept
  PROVE  Spec => []SeqsUnique
  <1>1. LeaseInv => SeqsUnique
    BY DEF LeaseInv
  <1>2. QED
    BY <1>1, LeaseHolds, PTL

(* A live lease never shows as starting, idle or queued.                   *)
THEOREM LiveShowsRunning ==
  ASSUME LeaseKept
  PROVE  Spec => []LiveLeaseIsRunning
  <1>1. LeaseInv => LiveLeaseIsRunning
    BY DEF LeaseInv
  <1>2. QED
    BY <1>1, LeaseHolds, PTL

LEMMA DropsOwnLease ==
  ASSUME LeaseKept, TypeOK, LeaseInv, Next, NEW q \in Executions,
         session.lease_id = q, LeaseActive(session), session'.lease_id # q
  PROVE  pc'[q] # pc[q]
  <1>1. session \in SessionDocs /\ pc \in [Executions -> Stations]
    BY DEF TypeOK
  <1>2. ASSUME NEW r \in Executions, pc[r] \in Leased PROVE r = q
    BY <1>2 DEF LeaseInv, HolderIsNamed
  <1>3. ASSUME session' = session \/ session' = MarkStarting(session) PROVE FALSE
    BY <1>3, MarkKeepsLease
  <1>4. ASSUME NEW r \in Executions, Claim(r) PROVE FALSE
    <2>1. CanClaim(session, r)
      BY <1>3, <1>4 DEF Claim
    <2>2. session' = Claimed(session, r) /\ r = q
      BY <1>4, <2>1 DEF Claim, CanClaim
    <2>3. QED
      BY <1>1, <2>2 DEF Claimed, SessionDocs
  <1>5. ASSUME NEW r \in Executions, Release(r) \/ FailRelease(r) PROVE pc'[q] # pc[q]
    <2>1. pc[r] \in Leased /\ session' # session
      BY <1>3, <1>5 DEF Release, FailRelease, Leased, Serving, Failing
    <2>2. pc'[r] # pc[r]
      BY <1>1, <1>5, <2>1 DEF Release, FailRelease, Goto
    <2>3. QED
      BY <1>2, <2>1, <2>2
  <1>6. ~(\E r \in Executions : ReleaseReplyLost(r))
    BY DEF ReleaseReplyLost, LeaseKept
  <1>7. ASSUME \/ session' = Renewed(session) \/ session' = Aged(session)
               \/ session' \in {Killed(session), Disabled(session)} \/ session' = Deleted(session)
        PROVE  FALSE
    BY <1>1, <1>7 DEF SessionDocs, Renewed, Aged, Killed, Disabled, Deleted
  <1>8. ASSUME NEW m \in Prompts, Send(m) \/ SenderTriggerFails(m) PROVE FALSE
    BY <1>3, <1>8 DEF Send, Push, SenderRead, SenderTrigger, SenderTriggerFails, SenderMark, docVars
  <1>9. ASSUME NEW r \in Executions,
               \/ Recover(r) \/ Hello(r) \/ Setup(r) \/ LoopTop(r) \/ Peek(r) \/ IdlePoll(r)
               \/ JournalPrompt(r) \/ Consume(r) \/ Turn(r) \/ Flush(r) \/ Tail(r) \/ Bye(r)
               \/ FailRecord(r) \/ HandOff(r) \/ IdleLapse(r) \/ Crash(r) \/ StoreError(r)
        PROVE  FALSE
    <2>1. session' = session \/ session' = MarkStarting(session)
      BY <1>9 DEF Recover, Hello, Setup, LoopTop, Peek, IdlePoll, JournalPrompt, Consume, Turn, Flush,
                  Tail, Bye, FailRecord, HandOff, Handoff, HandoffRead, HandoffTrigger, HandoffMark,
                  IdleLapse, Crash, StoreError, docVars
    <2>2. QED
      BY <1>3, <2>1
  <1>10. ASSUME \/ \E r \in Executions : Beat(r)
                \/ Tick \/ Kill \/ DeleteCheck \/ Delete
         PROVE  FALSE
    BY <1>3, <1>7, <1>10 DEF Beat, Tick, Kill, DeleteCheck, Delete
  <1>11. QED
    BY <1>4, <1>5, <1>6, <1>8, <1>9, <1>10 DEF Next, Serve

(* A live lease leaves the session only by a step of the execution that    *)
(* has it, as long as the lease can be relied on: no late release, beat or *)
(* mark of another touches it.                                             *)
THEOREM NobodyElseDropsLease ==
  LeaseKept => (Spec => OnlyOwnerDropsLease)
  <1> DEFINE own == \A q \in Executions :
               session.lease_id = q /\ LeaseActive(session) /\ session'.lease_id # q
                 => pc'[q] # pc[q]
  <1>1. LeaseKept /\ TypeOK /\ LeaseInv /\ [Next]_vars => [own]_vars
    BY DropsOwnLease
  <1>2. CASE LeaseKept
    <2>1. Spec => [](TypeOK /\ LeaseInv)
      BY <1>2, LeaseHolds, TypeCorrect, PTL
    <2>2. TypeOK /\ LeaseInv /\ [Next]_vars => [own]_vars
      BY <1>1, <1>2
    <2> HIDE DEF own
    <2>3. Spec => [][own]_vars
      BY <2>1, <2>2, PTL DEF Spec
    <2>4. QED
      BY <2>3 DEF own, OnlyOwnerDropsLease
  <1>3. QED
    BY <1>2

-----------------------------------------------------------------------------
(* No lost wakeup: a sender that finds a live execution leaves its prompt  *)
(* in the inbox and triggers nothing, relying on that execution to look at *)
(* the inbox once more after its release.  When nothing but the operator   *)
(* interferes, no prompt is stranded that way.                             *)


LEMMA InitHandoffInv == Init => HandoffInv
  BY DEF Init, NewSession, HandoffInv, NoStrandedPrompt, LiveLeaseIsHeld, FailingIsDead,
     TerminatedIsDisabled, DrainedIsGone, LeaseActive, Failing

(* An execution that leaves the stations it looks at the inbox from does   *)
(* so with the session dead, the inbox empty or another execution at work. *)
LEMMA LeavingKeepsHandoff ==
  ASSUME TypeOK, HandoffInv, NEW r \in Executions, NEW s \in Stations, Goto(r, s),
         UNCHANGED <<session, inbox, sender>>,
         s \in Failing => IsDead(session),
         \/ s \in Serving \cup Starting
         \/ pc[r] \notin WillLook
         \/ IsDead(session)
         \/ pc[r] \notin Starting \cup Serving
            /\ (s \in WillLook \/ Queue = {} \/ LeaseActive(session))
  PROVE  HandoffInv'
  <1> USE DEF Goto, HandoffInv
  <1>1. FailingIsDead' /\ TerminatedIsDisabled' /\ DrainedIsGone'
    BY DEF TypeOK, FailingIsDead, TerminatedIsDisabled, DrainedIsGone, IsDead
  <1>2. LiveLeaseIsHeld'
    <2>1. ASSUME NEW q \in Executions, pc[q] \in Starting \cup Serving, ~IsDead(session)
          PROVE  \E p \in Executions : pc'[p] \in Starting \cup Serving
      BY <2>1 DEF TypeOK, WillLook
    <2>2. QED
      BY <2>1 DEF LiveLeaseIsHeld, LeaseActive, IsDead
  <1>3. NoStrandedPrompt'
    <2> SUFFICES ASSUME NEW m \in Prompts, inbox[m] = "queued", ~IsDead(session),
                        sender[m] \notin {"read", "trigger"}
                 PROVE  \E p \in Executions : pc'[p] \in WillLook
      BY DEF NoStrandedPrompt, IsDead
    <2>1. PICK q \in Executions : pc[q] \in WillLook
      BY DEF NoStrandedPrompt
    <2>2. CASE q # r
      BY <2>1, <2>2 DEF TypeOK
    <2>3. CASE q = r /\ s \in WillLook
      BY <2>3 DEF TypeOK
    <2>4. CASE q = r /\ s \notin WillLook
      <3>1. pc[r] \notin Starting \cup Serving /\ (Queue = {} \/ LeaseActive(session))
        BY <2>1, <2>4 DEF WillLook
      <3>2. LeaseActive(session)
        BY <3>1 DEF Queue
      <3>3. PICK p \in Executions : pc[p] \in Starting \cup Serving
        BY <3>2 DEF LiveLeaseIsHeld
      <3>4. p # r /\ pc'[p] = pc[p]
        BY <3>1, <3>3 DEF TypeOK
      <3>5. QED
        BY <3>3, <3>4 DEF WillLook
    <2>5. QED
      BY <2>2, <2>3, <2>4
  <1>4. QED
    BY <1>1, <1>2, <1>3

(* A change of the document alone: no dead session comes back to life and  *)
(* no lease becomes live that was not.                                     *)
LEMMA DocStepKeepsHandoff ==
  ASSUME HandoffInv, UNCHANGED <<pc, inbox>>,
         \A m \in Prompts : sender[m] \in {"read", "trigger"}
                          => sender'[m] = sender[m],
         IsDead(session) => IsDead(session'), session'.exists => session.exists,
         LeaseActive(session') /\ ~IsDead(session') => LeaseActive(session),
         TerminatedIsDisabled'
  PROVE  HandoffInv'
  BY DEF HandoffInv, NoStrandedPrompt, LiveLeaseIsHeld, FailingIsDead, DrainedIsGone,
     IsDead, LeaseActive

LEMMA MarkIsQuiet ==
  ASSUME TypeOK, LeaseInv, HandoffInv, session' = MarkStarting(session)
  PROVE  /\ IsDead(session) <=> IsDead(session')
         /\ LeaseActive(session) <=> LeaseActive(session')
         /\ session.exists <=> session'.exists
         /\ TerminatedIsDisabled'
  <1>1. session' \in {session,
                     [session EXCEPT !.status = "starting", !.start_left = StartGrace]}
    BY DEF MarkStarting
  <1>2. session' # session => ~IsDead(session)
    BY DEF MarkStarting
  <1>3. QED
    BY <1>1, <1>2 DEF IsDead, LeaseActive, HandoffInv, TerminatedIsDisabled, TypeOK,
       SessionDocs

LEMMA ClientKeepsHandoff ==
  ASSUME OnlyOperator, TypeOK, LeaseInv, HandoffInv, NEW m \in Prompts,
         Send(m) \/ SenderTriggerFails(m)
  PROVE  HandoffInv'
  <1> USE DEF docVars, runVars, journalVars
  <1>1. CASE Push(m)
    <2>1. /\ UNCHANGED <<session, pc>> /\ sender' = [sender EXCEPT ![m] = "read"]
          /\ inbox' = [inbox EXCEPT ![m] = "queued"]
      BY <1>1 DEF Push
    <2>2. QED
      BY <2>1 DEF TypeOK, HandoffInv, NoStrandedPrompt, LiveLeaseIsHeld, FailingIsDead,
         TerminatedIsDisabled, DrainedIsGone, IsDead, LeaseActive
  <1>2. CASE SenderRead(m)
    <2>1. /\ UNCHANGED <<session, pc, inbox>>
          /\ sender' = [sender EXCEPT ![m] = IF IsDead(session) \/ LeaseActive(session)
                                            THEN "done" ELSE "trigger"]
      BY <1>2 DEF SenderRead
    <2>2. ~IsDead(session) /\ LeaseActive(session)
            => \E p \in Executions : pc[p] \in WillLook
      BY DEF HandoffInv, LiveLeaseIsHeld, WillLook
    <2>3. NoStrandedPrompt'
      BY <2>1, <2>2 DEF TypeOK, HandoffInv, NoStrandedPrompt, IsDead
    <2>4. QED
      BY <2>1, <2>3 DEF HandoffInv, LiveLeaseIsHeld, FailingIsDead, TerminatedIsDisabled,
         DrainedIsGone, IsDead, LeaseActive
  <1>3. CASE SenderTrigger(m)
    <2>1. PICK q \in Executions : pc[q] = "off" /\ Goto(q, "boot")
      BY <1>3 DEF SenderTrigger, Fresh
    <2>2. UNCHANGED <<session, inbox>> /\ pc' = [pc EXCEPT ![q] = "boot"]
      BY <1>3, <2>1 DEF SenderTrigger, Goto
    <2>3. NoStrandedPrompt'
      BY <2>2 DEF TypeOK, NoStrandedPrompt, WillLook
    <2>4. LiveLeaseIsHeld' /\ FailingIsDead' /\ TerminatedIsDisabled' /\ DrainedIsGone'
      BY <2>1, <2>2 DEF TypeOK, HandoffInv, LiveLeaseIsHeld, FailingIsDead,
         TerminatedIsDisabled, DrainedIsGone, IsDead, LeaseActive, Starting, Serving, Failing
    <2>5. QED
      BY <2>3, <2>4 DEF HandoffInv
  <1>4. CASE SenderTriggerFails(m)
    BY <1>4 DEF SenderTriggerFails, OnlyOperator
  <1>5. CASE SenderMark(m)
    <2>1. /\ session' = MarkStarting(session) /\ UNCHANGED <<pc, inbox>>
          /\ sender[m] = "mark" /\ sender' = [sender EXCEPT ![m] = "done"]
      BY <1>5 DEF SenderMark
    <2>2. \A n \in Prompts : sender[n] \in {"read", "trigger"} => sender'[n] = sender[n]
      BY <2>1 DEF TypeOK
    <2>3. QED
      BY <2>1, <2>2, MarkIsQuiet, DocStepKeepsHandoff
  <1>6. QED
    BY <1>1, <1>2, <1>3, <1>4, <1>5 DEF Send

(* An execution that lost its lease belongs to a dead session.             *)
LEMMA LostMeansDead ==
  ASSUME LeaseInv, NEW r \in Executions, lost[r], pc[r] \in Leased
  PROVE  IsDead(session)
  BY DEF LeaseInv, LostIsDead

LEMMA ServeKeepsHandoff ==
  ASSUME OnlyOperator, TypeOK, LeaseInv, HandoffInv, NEW r \in Executions, Serve(r)
  PROVE  HandoffInv'
  <1> USE DEF docVars, journalVars
  <1> DEFINE Along(s) == Goto(r, s) /\ UNCHANGED <<session, inbox, sender>>
  <1>a. ASSUME NEW s \in Serving, Along(s)
        PROVE  HandoffInv'
    BY <1>a, LeavingKeepsHandoff
       DEF Stations, Leased, Starting, Serving, Failing, HandingOff
  <1>b. ASSUME NEW s \in {"done", "fail", "fail_result", "fail_release"}, Along(s),
               IsDead(session)
        PROVE  HandoffInv'
    BY <1>b, LeavingKeepsHandoff DEF Stations, Leased, Failing
  <1> HIDE DEF Along
  <1>1. CASE Claim(r)
    <2>1. CASE CanClaim(session, r)
      <3>1. /\ session' = Claimed(session, r) /\ pc' = [pc EXCEPT ![r] = "recover"]
            /\ UNCHANGED <<inbox, sender>> /\ pc[r] = "boot"
        BY <1>1, <2>1 DEF Claim, Goto
      <3>2. /\ ~IsDead(session) /\ ~IsDead(session')
            /\ session'.status = "running"
        BY <2>1, <3>1 DEF CanClaim, Claimed, IsDead, TypeOK, SessionDocs
      <3>3. pc'[r] \in Starting
        BY <3>1 DEF TypeOK, Starting
      <3>4. NoStrandedPrompt' /\ LiveLeaseIsHeld'
        BY <3>3 DEF NoStrandedPrompt, LiveLeaseIsHeld, WillLook
      <3>5. FailingIsDead'
        BY <3>1, <3>2 DEF TypeOK, HandoffInv, FailingIsDead, Failing
      <3>6. QED
        BY <3>1, <3>2, <3>4, <3>5 DEF HandoffInv, TerminatedIsDisabled, DrainedIsGone,
           CanClaim, Claimed, IsDead, TypeOK, SessionDocs
    <2>2. CASE ~CanClaim(session, r)
      <3>1. Goto(r, "done") /\ UNCHANGED <<session, inbox, sender>> /\ pc[r] = "boot"
        BY <1>1, <2>2 DEF Claim
      <3>2. IsDead(session) \/ LeaseActive(session)
        BY <2>2 DEF CanClaim
      <3>3. QED
        BY <3>1, <3>2, LeavingKeepsHandoff DEF Stations, Starting, Serving, Failing
    <2>3. QED
      BY <2>1, <2>2
  <1>2. CASE Recover(r)
    BY <1>2, LeavingKeepsHandoff
       DEF Recover, Stations, Leased, Starting, Serving, Failing
  <1>3. CASE Hello(r) \/ Setup(r) \/ Peek(r) \/ IdlePoll(r) \/ JournalPrompt(r) \/ Turn(r)
             \/ Bye(r)
    <2>1. \E s \in Serving : Along(s)
      BY <1>3 DEF Along, Hello, Setup, Peek, IdlePoll, JournalPrompt, Turn, Bye, Serving,
         OnlyOperator
    <2>2. QED
      BY <2>1, <1>a
  <1>4. CASE LoopTop(r) \/ Tail(r)
    <2>1. CASE lost[r]
      <3>1. Along("done") /\ pc[r] \in Leased
        BY <1>4, <2>1 DEF Along, LoopTop, Tail, Leased, Serving
      <3>2. QED
        BY <2>1, <3>1, <1>b, LostMeansDead
    <2>2. CASE ~lost[r]
      <3>1. \E s \in Serving : Along(s)
        BY <1>4, <2>2 DEF Along, LoopTop, Tail, Serving
      <3>2. QED
        BY <3>1, <1>a
    <2>3. QED
      BY <2>1, <2>2
  <1>5. CASE Consume(r)
    <2>1. PICK m \in Prompts :
            IF inbox[m] = "deleted"
            THEN UNCHANGED inbox /\ Raise(r)
            ELSE inbox' = [inbox EXCEPT ![m] = "consumed"] /\ Goto(r, "turn")
      BY <1>5 DEF Consume
    <2>2. pc[r] = "consume" /\ UNCHANGED <<session, sender>>
      BY <1>5 DEF Consume
    <2>3. \/ pc' = [pc EXCEPT ![r] = "turn"]
          \/ inbox[m] = "deleted" /\ UNCHANGED inbox
               /\ \E s \in {"done", "fail"} : Goto(r, s)
      BY <2>1 DEF Raise, Goto
    <2>4. CASE pc' = [pc EXCEPT ![r] = "turn"]
      <3>1. pc'[r] \in Serving
        BY <2>4 DEF TypeOK, Serving
      <3>2. NoStrandedPrompt' /\ LiveLeaseIsHeld'
        BY <3>1 DEF NoStrandedPrompt, LiveLeaseIsHeld, WillLook
      <3>3. FailingIsDead' /\ TerminatedIsDisabled'
        BY <2>2, <2>4 DEF TypeOK, HandoffInv, FailingIsDead, TerminatedIsDisabled, IsDead,
           Failing
      <3>4. DrainedIsGone'
        BY <2>1, <2>2 DEF TypeOK, HandoffInv, DrainedIsGone
      <3>5. QED
        BY <3>2, <3>3, <3>4 DEF HandoffInv
    <2>5. CASE /\ inbox[m] = "deleted" /\ UNCHANGED inbox
               /\ \E s \in {"done", "fail"} : Goto(r, s)
      <3>1. IsDead(session)
        BY <2>5 DEF HandoffInv, DrainedIsGone, IsDead
      <3>2. \E s \in {"done", "fail", "fail_result", "fail_release"} : Along(s)
        BY <2>2, <2>5 DEF Along
      <3>3. QED
        BY <3>1, <3>2, <1>b
    <2>6. QED
      BY <2>3, <2>4, <2>5
  <1>6. CASE Flush(r)
    <2>1. CASE lost[r]
      <3>1. Along("done") /\ pc[r] \in Leased
        BY <1>6, <2>1 DEF Along, Flush, Leased, Serving
      <3>2. QED
        BY <2>1, <3>1, <1>b, LostMeansDead
    <2>2. CASE ~lost[r] /\ ~session.exists
      <3>1. Along("fail") /\ IsDead(session)
        BY <1>6, <2>2 DEF Along, Flush, Raise, IsDead
      <3>2. QED
        BY <3>1, <1>b
    <2>3. CASE ~lost[r] /\ session.exists
      <3>1. \E s \in Serving : Along(s)
        BY <1>6, <2>3 DEF Along, Flush, Serving
      <3>2. QED
        BY <3>1, <1>a
    <2>4. QED
      BY <2>1, <2>2, <2>3
  <1>7. CASE Release(r)
    <2>1. CASE session.exists
      <3>1. /\ session' = Released(session) /\ pc' = [pc EXCEPT ![r] = "handoff"]
            /\ UNCHANGED <<inbox, sender>>
        BY <1>7, <2>1 DEF Release, Goto
      <3>2. /\ session'.exists /\ ~LeaseActive(session') /\ session'.status = "idle"
            /\ session'.disabled = session.disabled
        BY <2>1, <3>1 DEF Released, LeaseActive, TypeOK, SessionDocs
      <3>3. pc'[r] \in WillLook
        BY <3>1 DEF TypeOK, WillLook
      <3>4. IsDead(session) => IsDead(session')
        BY <2>1, <3>2 DEF HandoffInv, TerminatedIsDisabled, IsDead
      <3>5. FailingIsDead'
        BY <3>1, <3>4 DEF TypeOK, HandoffInv, FailingIsDead, Failing
      <3>6. QED
        BY <2>1, <3>1, <3>2, <3>3, <3>5 DEF HandoffInv, NoStrandedPrompt, LiveLeaseIsHeld,
           TerminatedIsDisabled, DrainedIsGone
    <2>2. CASE ~session.exists
      <3>1. \E s \in {"done", "fail", "fail_result", "fail_release"} : Along(s)
        BY <1>7, <2>2 DEF Along, Release, Raise
      <3>2. QED
        BY <2>2, <3>1, <1>b DEF IsDead
    <2>3. QED
      BY <2>1, <2>2
  <1>8. CASE FailRecord(r)
    <2>1. /\ \E s \in {"done", "fail", "fail_result", "fail_release"} : Along(s)
          /\ IsDead(session)
      BY <1>8 DEF Along, FailRecord, HandoffInv, FailingIsDead, Failing
    <2>2. QED
      BY <2>1, <1>b
  <1>9. CASE FailRelease(r)
    <2>1. /\ IsDead(session) /\ pc' = [pc EXCEPT ![r] = "done"]
          /\ UNCHANGED <<inbox, sender>>
          /\ session' = IF session.exists THEN Released(session) ELSE session
      BY <1>9 DEF FailRelease, Goto, HandoffInv, FailingIsDead, Failing
    <2>2. /\ IsDead(session') /\ session'.exists = session.exists
          /\ TerminatedIsDisabled'
      BY <2>1 DEF Released, IsDead, HandoffInv, TerminatedIsDisabled, TypeOK, SessionDocs
    <2>3. QED
      BY <2>1, <2>2 DEF HandoffInv, NoStrandedPrompt, LiveLeaseIsHeld, FailingIsDead,
         DrainedIsGone
  <1>10. QED
    BY <1>1, <1>2, <1>3, <1>4, <1>5, <1>6, <1>7, <1>8, <1>9 DEF Serve

LEMMA HandOffKeepsHandoff ==
  ASSUME TypeOK, LeaseInv, HandoffInv, NEW r \in Executions, HandOff(r)
  PROVE  HandoffInv'
  <1> USE DEF docVars, journalVars
  <1>1. CASE Handoff(r) \/ HandoffRead(r)
    <2>1. /\ UNCHANGED <<session, inbox, sender>> /\ pc[r] \in {"handoff", "h_read"}
          /\ \/ Goto(r, "h_read") \/ Goto(r, "h_trigger")
             \/ /\ Goto(r, "done")
                /\ Queue = {} \/ IsDead(session) \/ LeaseActive(session)
      BY <1>1 DEF Handoff, HandoffRead
    <2>2. QED
      BY <2>1, LeavingKeepsHandoff
         DEF Stations, HandingOff, Starting, Serving, Failing, WillLook
  <1>2. CASE HandoffTrigger(r)
    <2>1. PICK q \in Executions :
            pc[q] = "off" /\ pc' = [pc EXCEPT ![r] = "h_mark", ![q] = "boot"]
      BY <1>2 DEF HandoffTrigger, Fresh
    <2>2. UNCHANGED <<session, inbox, sender>> /\ pc[r] = "h_trigger"
      BY <1>2 DEF HandoffTrigger
    <2>3. pc'[q] \in WillLook
      BY <2>1 DEF TypeOK, WillLook
    <2>4. LiveLeaseIsHeld' /\ FailingIsDead'
      BY <2>1, <2>2 DEF TypeOK, HandoffInv, LiveLeaseIsHeld, FailingIsDead, IsDead,
         LeaseActive, Starting, Serving, Failing
    <2>5. QED
      BY <2>2, <2>3, <2>4 DEF HandoffInv, NoStrandedPrompt, TerminatedIsDisabled,
         DrainedIsGone
  <1>3. CASE HandoffMark(r)
    <2>1. /\ session' = MarkStarting(session) /\ UNCHANGED <<inbox, sender>>
          /\ pc' = [pc EXCEPT ![r] = "done"] /\ pc[r] = "h_mark"
      BY <1>3 DEF HandoffMark, Goto
    <2>2. \A q \in Executions : pc[q] \in WillLook => pc'[q] = pc[q]
      BY <2>1 DEF TypeOK, WillLook, Starting, Serving
    <2>3. /\ IsDead(session) <=> IsDead(session')
          /\ LeaseActive(session) <=> LeaseActive(session')
          /\ session.exists <=> session'.exists
          /\ TerminatedIsDisabled'
      BY <2>1, MarkIsQuiet
    <2>4. NoStrandedPrompt' /\ LiveLeaseIsHeld'
      BY <2>1, <2>2, <2>3 DEF HandoffInv, NoStrandedPrompt, LiveLeaseIsHeld, WillLook
    <2>5. FailingIsDead' /\ DrainedIsGone'
      BY <2>1, <2>3 DEF TypeOK, HandoffInv, FailingIsDead, DrainedIsGone, Failing
    <2>6. QED
      BY <2>3, <2>4, <2>5 DEF HandoffInv
  <1>4. QED
    BY <1>1, <1>2, <1>3 DEF HandOff

LEMMA OtherStepsKeepHandoff ==
  ASSUME OnlyOperator, TypeOK, LeaseInv, HandoffInv,
         \/ \E r \in Executions : \/ IdleLapse(r) \/ Beat(r) \/ Crash(r)
                                  \/ StoreError(r) \/ ReleaseReplyLost(r)
         \/ Tick \/ Kill \/ DeleteCheck \/ Delete
  PROVE  HandoffInv'
  <1> USE DEF docVars, runVars, journalVars
  <1>1. ASSUME NEW r \in Executions, IdleLapse(r) PROVE HandoffInv'
    BY <1>1, LeavingKeepsHandoff DEF IdleLapse, Stations, Leased, Serving, Failing
  <1>2. ASSUME NEW r \in Executions, Crash(r) \/ StoreError(r) \/ ReleaseReplyLost(r)
        PROVE HandoffInv'
    BY <1>2 DEF Crash, StoreError, ReleaseReplyLost, OnlyOperator
  <1>3. ASSUME NEW r \in Executions, Beat(r) PROVE HandoffInv'
    <2>1. CASE CanRenew(session, r)
      <3>1. /\ session' = Renewed(session) /\ UNCHANGED <<pc, inbox, sender>>
            /\ ~IsDead(session) /\ pc[r] \in Beating /\ ~lost[r]
            /\ session.lease_id = r
        BY <1>3, <2>1 DEF Beat, CanRenew
      <3>2. /\ session'.exists = session.exists /\ session'.disabled = session.disabled
            /\ session'.status = session.status
        BY <3>1 DEF Renewed, TypeOK, SessionDocs
      <3>3. LeaseActive(session)
        BY <3>1 DEF LeaseInv, OthersAreNotNamed, HolderIsLive, Beating, Leased, IsDead,
           LeaseActive
      <3>4. QED
        BY <3>1, <3>2, <3>3, DocStepKeepsHandoff
           DEF HandoffInv, TerminatedIsDisabled, IsDead
    <2>2. CASE ~CanRenew(session, r)
      BY <1>3, <2>2, DocStepKeepsHandoff DEF Beat, HandoffInv, TerminatedIsDisabled
    <2>3. QED
      BY <2>1, <2>2
  <1>4. CASE Tick
    <2>1. /\ session'.exists = session.exists /\ session'.disabled = session.disabled
          /\ session'.status = session.status
          /\ session'.lease_left > 0 => session.lease_left > 0
      BY <1>4 DEF Tick, Aged, TypeOK, SessionDocs
    <2>2. UNCHANGED <<pc, inbox, sender>>
      BY <1>4 DEF Tick
    <2>3. QED
      BY <2>1, <2>2, DocStepKeepsHandoff
         DEF HandoffInv, TerminatedIsDisabled, IsDead, LeaseActive
  <1>5. CASE Kill
    <2>1. session'.disabled /\ session'.exists = session.exists
      BY <1>5 DEF Kill, Killed, Disabled, TypeOK, SessionDocs
    <2>2. UNCHANGED <<pc, inbox, sender>>
      BY <1>5 DEF Kill
    <2>3. QED
      BY <2>1, <2>2, DocStepKeepsHandoff DEF TerminatedIsDisabled, IsDead
  <1>6. CASE DeleteCheck
    BY <1>6, DocStepKeepsHandoff DEF DeleteCheck, HandoffInv, TerminatedIsDisabled
  <1>7. CASE Delete
    <2>1. /\ ~session'.exists /\ session'.status = session.status
          /\ session'.disabled = session.disabled
      BY <1>7 DEF Delete, Deleted, TypeOK, SessionDocs
    <2>2. pc' = pc
      BY <1>7 DEF Delete
    <2>3. QED
      BY <2>1, <2>2 DEF HandoffInv, NoStrandedPrompt, LiveLeaseIsHeld, FailingIsDead,
         TerminatedIsDisabled, DrainedIsGone, IsDead
  <1>8. QED
    BY <1>1, <1>2, <1>3, <1>4, <1>5, <1>6, <1>7

(* A queued prompt of a session that may still work always has a sender or *)
(* an execution that has yet to look: none is left behind.                 *)
THEOREM NoLostWakeup ==
  ASSUME OnlyOperator
  PROVE  Spec => []NoStrandedPrompt
  <1>1. LeaseKept
    BY DEF OnlyOperator, LeaseKept
  <1>2. Init => HandoffInv
    BY InitHandoffInv
  <1>3. TypeOK /\ LeaseInv /\ HandoffInv /\ [Next]_vars => HandoffInv'
    <2> SUFFICES ASSUME TypeOK, LeaseInv, HandoffInv, [Next]_vars PROVE HandoffInv'
      OBVIOUS
    <2>1. CASE UNCHANGED vars
      BY <2>1, DocStepKeepsHandoff DEF vars, HandoffInv, TerminatedIsDisabled
    <2>2. CASE Next
      BY <2>2, ClientKeepsHandoff, ServeKeepsHandoff, HandOffKeepsHandoff,
         OtherStepsKeepHandoff DEF Next
    <2>3. QED
      BY <2>1, <2>2
  <1>4. HandoffInv => NoStrandedPrompt
    BY DEF HandoffInv
  <1>5. QED
    BY <1>1, <1>2, <1>3, <1>4, LeaseHolds, PTL DEF Spec

-----------------------------------------------------------------------------
(* The record comes before the consumption.                                *)

(* The prompt at hand is one prompt: the batch has one oldest.             *)
LEMMA CurrentIsOne ==
  ASSUME NEW r \in Executions, NEW m \in Prompts, NEW n \in Prompts,
         Current(r, m), Current(r, n)
  PROVE  m = n
  BY BoundAssumption DEF Current, Prompts

(* Who starts to journal, consumes or works on what: everybody else stays  *)
(* away from the stations in between.                                      *)
Midway == {"prompt", "consume", "turn", "flush"}

LEMMA OthersStayMidway ==
  ASSUME TypeOK, Next,
         \A r \in Executions : ~ \/ Peek(r) \/ JournalPrompt(r) \/ Consume(r)
                                 \/ Turn(r) \/ Flush(r)
  PROVE  /\ journaled' = journaled
         /\ \A r \in Executions :
              pc'[r] \in Midway => pc'[r] = pc[r] /\ batch'[r] = batch[r]
         /\ \A m \in Prompts :
              \/ inbox'[m] = inbox[m]
              \/ inbox'[m] = "deleted"
              \/ inbox'[m] = "queued" /\ sender[m] = "idle" /\ sender'[m] # "idle"
  <1> USE DEF docVars, runVars, journalVars, Goto, TypeOK, Midway
  <1>1. ASSUME NEW m \in Prompts, Send(m) \/ SenderTriggerFails(m)
        PROVE  /\ journaled' = journaled /\ batch' = batch
               /\ \A r \in Executions : pc'[r] \in {pc[r], "boot"}
               /\ \A n \in Prompts :
                    \/ inbox'[n] = inbox[n]
                    \/ inbox'[n] = "queued" /\ sender[n] = "idle" /\ sender'[n] # "idle"
    BY <1>1 DEF Send, SenderTriggerFails, Push, SenderRead, SenderTrigger, SenderMark
  <1>2. ASSUME NEW r \in Executions, Serve(r)
        PROVE  /\ journaled' = journaled /\ batch' = batch /\ inbox' = inbox
               /\ \E s \in Stations \ Midway : pc' = [pc EXCEPT ![r] = s]
    BY <1>2 DEF Serve, Claim, Recover, Hello, Setup, LoopTop, IdlePoll, Tail, Bye, Release,
                FailRecord, FailRelease, Raise, Stations, Leased, Starting, Serving, Failing,
                HandingOff
  <1>3. ASSUME NEW r \in Executions, HandOff(r)
        PROVE  /\ journaled' = journaled /\ batch' = batch /\ inbox' = inbox
               /\ \A q \in Executions : pc'[q] \in {pc[q], "done", "boot"} \cup HandingOff
    BY <1>3 DEF HandOff, Handoff, HandoffRead, HandoffTrigger, HandoffMark, HandingOff
  <1>4. ASSUME NEW r \in Executions,
               IdleLapse(r) \/ Beat(r) \/ Crash(r) \/ StoreError(r) \/ ReleaseReplyLost(r)
        PROVE  /\ journaled' = journaled /\ batch' = batch /\ inbox' = inbox
               /\ \A q \in Executions : pc'[q] \in {pc[q], "done", "fail", "tail"}
    BY <1>4 DEF IdleLapse, Beat, Crash, StoreError, ReleaseReplyLost, Raise
  <1>5. ASSUME Tick \/ Kill \/ DeleteCheck \/ Delete
        PROVE  /\ journaled' = journaled /\ batch' = batch /\ pc' = pc
               /\ \A m \in Prompts : inbox'[m] \in {inbox[m], "deleted"}
    BY <1>5 DEF Tick, Kill, DeleteCheck, Delete
  <1>6. QED
    BY <1>1, <1>2, <1>3, <1>4, <1>5 DEF Next, HandingOff

RecordInv == ConsumedWasJournaled /\ RecordBeforeConsume

LEMMA NextRecordInv ==
  ASSUME TypeOK, RecordInv, [Next]_vars
  PROVE  RecordInv'
  <1> USE DEF RecordInv, ConsumedWasJournaled, RecordBeforeConsume, TypeOK, docVars,
              journalVars, Goto
  <1>1. ASSUME NEW r \in Executions, JournalPrompt(r)
        PROVE  RecordInv'
    <2>1. PICK m \in Prompts : Current(r, m) /\ journaled' = [journaled EXCEPT ![m] = @ + 1]
      BY <1>1 DEF JournalPrompt
    <2>2. /\ pc' = [pc EXCEPT ![r] = "consume"] /\ batch' = batch /\ inbox' = inbox
          /\ \A n \in Prompts : journaled[n] > 0 => journaled'[n] > 0
          /\ journaled'[m] > 0
      BY <1>1, <2>1 DEF JournalPrompt
    <2>3. \A q \in Executions, n \in Prompts : Current(q, n)' <=> Current(q, n)
      BY <2>2 DEF Current
    <2>4. \A n \in Prompts : Current(r, n) => n = m
      BY <2>1, CurrentIsOne
    <2>5. QED
      BY <2>2, <2>3, <2>4
  <1>2. ASSUME NEW r \in Executions, Peek(r) \/ Turn(r) \/ Flush(r)
        PROVE  RecordInv'
    <2>1. /\ journaled' = journaled /\ inbox' = inbox
          /\ \A q \in Executions : pc'[q] = "consume" => pc[q] = "consume" /\ q # r
          /\ \A q \in Executions : q # r => batch'[q] = batch[q]
      <3>1. CASE Peek(r)
        BY <3>1 DEF Peek
      <3>2. CASE Turn(r)
        BY <3>2 DEF Turn
      <3>3. CASE Flush(r)
        BY ZenonT(60), <3>3 DEF Flush, Raise
      <3>4. QED
        BY <1>2, <3>1, <3>2, <3>3
    <2>2. QED
      BY <2>1 DEF Current
  <1>3. ASSUME NEW r \in Executions, Consume(r)
        PROVE  RecordInv'
    <2>1. PICK m \in Prompts :
            /\ Current(r, m)
            /\ IF inbox[m] = "deleted"
               THEN UNCHANGED inbox /\ Raise(r)
               ELSE inbox' = [inbox EXCEPT ![m] = "consumed"] /\ Goto(r, "turn")
      BY <1>3 DEF Consume
    <2>2. pc[r] = "consume" /\ journaled' = journaled /\ batch' = batch
      BY <1>3 DEF Consume
    <2>3. \A q \in Executions : pc'[q] = "consume" => pc[q] = "consume"
      BY <2>1, <2>2 DEF Raise
    <2>4. \A n \in Prompts : inbox'[n] = "consumed" => inbox[n] = "consumed" \/ n = m
      BY <2>1
    <2>5. QED
      BY <2>1, <2>2, <2>3, <2>4 DEF Current
  <1>4. CASE /\ Next
             /\ \A r \in Executions : ~ \/ Peek(r) \/ JournalPrompt(r) \/ Consume(r)
                                        \/ Turn(r) \/ Flush(r)
    BY <1>4, OthersStayMidway DEF Midway, Current
  <1>5. CASE UNCHANGED vars
    BY <1>5 DEF vars, Current
  <1>6. QED
    BY <1>1, <1>2, <1>3, <1>4, <1>5

(* Whatever fails, dies, stalls or is lost, a prompt leaves the inbox as   *)
(* consumed only with its record in the journal: none is swallowed.        *)
THEOREM NothingSwallowed == Spec => []ConsumedWasJournaled
  <1>1. Init => RecordInv
    BY DEF Init, RecordInv, ConsumedWasJournaled, RecordBeforeConsume
  <1>2. TypeOK /\ RecordInv /\ [Next]_vars => RecordInv'
    BY NextRecordInv
  <1>3. RecordInv => ConsumedWasJournaled
    BY DEF RecordInv
  <1>4. QED
    BY <1>1, <1>2, <1>3, TypeCorrect, PTL DEF Spec

-----------------------------------------------------------------------------
(* Once is enough, unless the execution that journals a prompt dies.       *)

LEMMA MidwayIsLeased == Midway \subseteq Leased
  BY DEF Midway, Leased, Serving

LEMMA OneLeased ==
  ASSUME LeaseInv, NEW r \in Executions, NEW q \in Executions,
         pc[r] \in Leased, pc[q] \in Leased
  PROVE  r = q
  BY DEF LeaseInv, HolderIsNamed

(* The poll finds only what nobody has a record of: whoever were about to  *)
(* consume some of it would be a second writer.                            *)
LEMMA PeekKeepsOnce ==
  ASSUME TypeOK, LeaseInv, OnceInv, NEW r \in Executions, Peek(r)
  PROVE  OnceInv'
  <1>1. /\ pc[r] = "peek" /\ journaled' = journaled /\ inbox' = inbox /\ sender' = sender
        /\ batch' = [batch EXCEPT ![r] = Queue]
        /\ pc' \in {[pc EXCEPT ![r] = "idle"], [pc EXCEPT ![r] = "prompt"]}
    BY DEF Peek, journalVars, Goto
  <1>2. pc[r] \in Leased
    BY <1>1 DEF Leased, Serving
  <1>3. \A q \in Executions : pc[q] \notin Midway
    BY <1>1, <1>2, OneLeased, MidwayIsLeased DEF Midway
  <1>4. \A m \in Queue : journaled[m] = 0
    BY <1>3 DEF OnceInv, QueuedIsNew, Queue, Midway
  <1>5. \A m \in Prompts : inbox[m] \in {"unsent", "queued"} => journaled[m] = 0
    BY <1>3 DEF OnceInv, QueuedIsNew, Midway
  <1>6. \A q \in Executions : pc'[q] \in Midway => q = r
    BY <1>1, <1>3 DEF TypeOK, Midway
  <1>7. RestIsNew'
    BY <1>1, <1>4, <1>6 DEF RestIsNew, TypeOK, Midway
  <1>8. IdleIsUnsent'
    <2>1. \A m \in Queue : sender[m] # "idle"
      BY DEF OnceInv, IdleIsUnsent, Queue
    <2>2. QED
      BY <1>1, <2>1 DEF OnceInv, IdleIsUnsent, TypeOK
  <1>9. QED
    BY <1>1, <1>5, <1>7, <1>8 DEF OnceInv, PromptJournaledOnce, QueuedIsNew

LEMMA JournalKeepsOnce ==
  ASSUME TypeOK, LeaseInv, OnceInv, NEW r \in Executions, JournalPrompt(r)
  PROVE  OnceInv'
  <1>1. PICK m \in Prompts : Current(r, m) /\ journaled' = [journaled EXCEPT ![m] = @ + 1]
    BY DEF JournalPrompt
  <1>2. /\ pc[r] = "prompt" /\ pc' = [pc EXCEPT ![r] = "consume"]
        /\ batch' = batch /\ inbox' = inbox /\ sender' = sender
    BY DEF JournalPrompt, docVars, Goto
  <1>3. \A n \in batch[r] : journaled[n] = 0
    BY <1>2 DEF OnceInv, RestIsNew
  <1>4. journaled[m] = 0 /\ journaled'[m] = 1
    BY <1>1, <1>3 DEF Current, TypeOK
  <1>5. \A n \in Prompts : n # m => journaled'[n] = journaled[n]
    BY <1>1 DEF TypeOK
  <1>6. \A q \in Executions : pc[q] \in Midway => q = r
    BY <1>2, OneLeased, MidwayIsLeased DEF Midway
  <1>7. \A q \in Executions : pc'[q] \in Midway => q = r
    BY <1>2, <1>6 DEF TypeOK
  <1>8. pc'[r] = "consume" /\ \A q \in Executions, n \in Prompts : Current(q, n)' <=> Current(q, n)
    BY <1>2 DEF TypeOK, Current
  <1>9. PromptJournaledOnce' /\ IdleIsUnsent'
    BY <1>2, <1>4, <1>5 DEF OnceInv, PromptJournaledOnce, IdleIsUnsent
  <1>10. QueuedIsNew'
    <2>1. \A n \in Prompts : inbox[n] \in {"unsent", "queued"} => journaled[n] = 0
      BY <1>2, <1>6 DEF OnceInv, QueuedIsNew, Midway
    <2>2. QED
      BY <1>1, <1>2, <1>5, <1>8, <2>1 DEF QueuedIsNew
  <1>11. RestIsNew'
    <2>1. batch[r] \subseteq Prompts
      BY DEF TypeOK
    <2>2. QED
      BY <1>1, <1>2, <1>3, <1>5, <1>7, <1>8, <2>1 DEF RestIsNew, Midway
  <1>12. QED
    BY <1>9, <1>10, <1>11 DEF OnceInv

LEMMA ConsumeKeepsOnce ==
  ASSUME TypeOK, OnceInv, NEW r \in Executions, Consume(r)
  PROVE  OnceInv'
  <1>1. PICK m \in Prompts :
          /\ Current(r, m)
          /\ IF inbox[m] = "deleted"
             THEN UNCHANGED inbox /\ Raise(r)
             ELSE inbox' = [inbox EXCEPT ![m] = "consumed"] /\ Goto(r, "turn")
    BY DEF Consume
  <1>2. pc[r] = "consume" /\ journaled' = journaled /\ batch' = batch /\ sender' = sender
    BY DEF Consume, journalVars
  <1>3. \A q \in Executions, n \in Prompts : Current(q, n)' <=> Current(q, n)
    BY <1>2 DEF Current
  <1>4. /\ \A q \in Executions : q # r => pc'[q] = pc[q]
        /\ pc'[r] \in {"done", "fail", "turn"}
    BY <1>1 DEF Raise, Goto, TypeOK
  <1>5. \A n \in Prompts : Current(r, n) => n = m
    BY <1>1, CurrentIsOne
  <1>6. /\ inbox'[m] \notin {"unsent", "queued"}
        /\ \A n \in Prompts : n # m => inbox'[n] = inbox[n]
    BY <1>1 DEF TypeOK
  <1>7. QueuedIsNew'
    BY <1>2, <1>3, <1>4, <1>5, <1>6 DEF OnceInv, QueuedIsNew
  <1>8. RestIsNew'
    <2>1. \A q \in Executions : batch[q] \subseteq Prompts
      BY DEF TypeOK
    <2>2. QED
      BY <1>2, <1>3, <1>4, <2>1 DEF OnceInv, RestIsNew
  <1>9. IdleIsUnsent'
    <2>1. sender[m] # "idle"
      BY <1>1 DEF Current, OnceInv, IdleIsUnsent
    <2>2. QED
      BY <1>2, <1>6, <2>1 DEF OnceInv, IdleIsUnsent
  <1>10. QED
    BY <1>2, <1>7, <1>8, <1>9 DEF OnceInv, PromptJournaledOnce

LEMMA TurnKeepsOnce ==
  ASSUME TypeOK, OnceInv, NEW r \in Executions, Turn(r)
  PROVE  OnceInv'
  <1>1. /\ pc[r] = "turn" /\ pc' = [pc EXCEPT ![r] = "flush"] /\ journaled' = journaled
        /\ batch' = batch /\ inbox' = inbox /\ sender' = sender
    BY DEF Turn, docVars, Goto
  <1>2. \A q \in Executions, n \in Prompts : Current(q, n)' <=> Current(q, n)
    BY <1>1 DEF Current
  <1>3. \A q \in Executions : batch[q] \subseteq Prompts
    BY DEF TypeOK
  <1>4. QED
    BY <1>1, <1>2, <1>3 DEF OnceInv, PromptJournaledOnce, QueuedIsNew, RestIsNew, IdleIsUnsent,
       TypeOK

(* What is left of the batch is new, and the next prompt is of that.       *)
LEMMA FlushKeepsOnce ==
  ASSUME TypeOK, OnceInv, NEW r \in Executions, Flush(r)
  PROVE  OnceInv'
  <1>1. PICK m \in Prompts : Current(r, m) /\ batch' = [batch EXCEPT ![r] = @ \ {m}]
    BY DEF Flush
  <1>2. /\ pc[r] = "flush" /\ journaled' = journaled /\ inbox' = inbox /\ sender' = sender
        /\ \E s \in {"done", "fail", "loop", "prompt"} : pc' = [pc EXCEPT ![r] = s]
    BY DEF Flush, journalVars, Raise, Goto
  <1>3. \A q \in Executions : q # r => pc'[q] = pc[q] /\ batch'[q] = batch[q]
    BY <1>1, <1>2 DEF TypeOK
  <1>4. batch'[r] = batch[r] \ {m} /\ pc'[r] \in {"done", "fail", "loop", "prompt"}
    BY <1>1, <1>2 DEF TypeOK
  <1>5. \A n \in batch[r] \ {m} : n \in Prompts /\ journaled[n] = 0
    BY <1>1, <1>2, CurrentIsOne DEF OnceInv, RestIsNew, TypeOK
  <1>6. \A q \in Executions, n \in Prompts : q # r => (Current(q, n)' <=> Current(q, n))
    BY <1>3 DEF Current
  <1>7. QueuedIsNew'
    BY <1>2, <1>3, <1>6 DEF OnceInv, QueuedIsNew
  <1>8. RestIsNew'
    <2>1. \A q \in Executions : batch[q] \subseteq Prompts
      BY DEF TypeOK
    <2>2. QED
      BY <1>2, <1>3, <1>4, <1>5, <1>6, <2>1 DEF OnceInv, RestIsNew
  <1>9. IdleIsUnsent'
    BY <1>2, <1>3, <1>4 DEF OnceInv, IdleIsUnsent
  <1>10. QED
    BY <1>2, <1>7, <1>8, <1>9 DEF OnceInv, PromptJournaledOnce

(* With the faults left out, nobody leaves "consume" but by consuming.     *)
LEMMA NobodyDropsOut ==
  ASSUME NoneDies, TypeOK, Next, \A r \in Executions : ~(Consume(r) \/ Peek(r) \/ Flush(r))
  PROVE  /\ \A r \in Executions : pc[r] = "consume" => pc'[r] = "consume"
         /\ batch' = batch
  <1> USE DEF docVars, runVars, Goto, TypeOK
  <1>1. ASSUME NEW m \in Prompts, Send(m) \/ SenderTriggerFails(m)
        PROVE  /\ batch' = batch
               /\ \A r \in Executions : pc[r] # "off" => pc'[r] = pc[r]
    BY <1>1 DEF Send, SenderTriggerFails, Push, SenderRead, SenderTrigger, SenderMark, Fresh
  <1>2. ASSUME NEW r \in Executions, Serve(r)
        PROVE  /\ batch' = batch /\ pc[r] # "consume"
               /\ \A q \in Executions : q # r => pc'[q] = pc[q]
    BY <1>2 DEF Serve, Claim, Recover, Hello, Setup, LoopTop, IdlePoll, JournalPrompt, Turn,
                Tail, Bye, Release, FailRecord, FailRelease, Raise
  <1>3. ASSUME NEW r \in Executions, HandOff(r)
        PROVE  /\ batch' = batch
               /\ \A q \in Executions : pc[q] \notin {"off"} \cup HandingOff => pc'[q] = pc[q]
    BY <1>3 DEF HandOff, Handoff, HandoffRead, HandoffTrigger, HandoffMark, HandingOff, Fresh
  <1>4. ASSUME NEW r \in Executions, IdleLapse(r) \/ Beat(r)
        PROVE  /\ batch' = batch
               /\ \A q \in Executions : pc[q] # "idle" => pc'[q] = pc[q]
    BY <1>4 DEF IdleLapse, Beat
  <1>5. ASSUME NEW r \in Executions, Crash(r) \/ StoreError(r) \/ ReleaseReplyLost(r)
        PROVE  FALSE
    BY <1>5 DEF Crash, StoreError, ReleaseReplyLost, NoneDies, LeaseKept
  <1>6. ASSUME Tick \/ Kill \/ DeleteCheck \/ Delete
        PROVE  batch' = batch /\ pc' = pc
    BY <1>6 DEF Tick, Kill, DeleteCheck, Delete
  <1>7. QED
    BY <1>1, <1>2, <1>3, <1>4, <1>5, <1>6 DEF Next, HandingOff

(* A prompt is sent once.                                                  *)
LEMMA SendersMoveOn ==
  ASSUME TypeOK, OnceInv, Next, NEW m \in Prompts, sender'[m] = "idle",
         \A r \in Executions : ~Consume(r)
  PROVE  sender[m] = "idle" /\ inbox'[m] = inbox[m]
  <1> USE DEF docVars, runVars, TypeOK
  <1>1. ASSUME NEW n \in Prompts, Send(n) \/ SenderTriggerFails(n)
        PROVE  sender[m] = "idle" /\ inbox'[m] = inbox[m]
    BY <1>1 DEF Send, SenderTriggerFails, Push, SenderRead, SenderTrigger, SenderMark
  <1>2. ASSUME NEW r \in Executions, Serve(r)
        PROVE  sender' = sender /\ inbox' = inbox
    BY <1>2 DEF Serve, Claim, Recover, Hello, Setup, LoopTop, Peek, IdlePoll, JournalPrompt,
                Turn, Flush, Tail, Bye, Release, FailRecord, FailRelease
  <1>3. ASSUME NEW r \in Executions,
               \/ HandOff(r) \/ IdleLapse(r) \/ Beat(r)
               \/ Crash(r) \/ StoreError(r) \/ ReleaseReplyLost(r)
        PROVE  sender' = sender /\ inbox' = inbox
    BY <1>3 DEF HandOff, Handoff, HandoffRead, HandoffTrigger, HandoffMark, IdleLapse, Beat,
                Crash, StoreError, ReleaseReplyLost
  <1>4. CASE Tick \/ Kill \/ DeleteCheck
    BY <1>4 DEF Tick, Kill, DeleteCheck
  <1>5. CASE Delete
    <2>1. sender[m] = "idle" /\ inbox[m] = "unsent"
      BY <1>5 DEF Delete, OnceInv, IdleIsUnsent
    <2>2. QED
      BY <1>5, <2>1 DEF Delete
  <1>6. QED
    BY <1>1, <1>2, <1>3, <1>4, <1>5 DEF Next

LEMMA NextOnceInv ==
  ASSUME NoneDies, TypeOK, LeaseInv, OnceInv, [Next]_vars
  PROVE  OnceInv'
  <1>1. ASSUME NEW r \in Executions,
               Peek(r) \/ JournalPrompt(r) \/ Consume(r) \/ Turn(r) \/ Flush(r)
        PROVE  OnceInv'
    BY <1>1, PeekKeepsOnce, JournalKeepsOnce, ConsumeKeepsOnce, TurnKeepsOnce, FlushKeepsOnce
  <1>2. CASE /\ Next
             /\ \A r \in Executions : ~ \/ Peek(r) \/ JournalPrompt(r) \/ Consume(r)
                                        \/ Turn(r) \/ Flush(r)
    <2>1. /\ journaled' = journaled /\ batch' = batch
          /\ \A r \in Executions : pc[r] = "consume" => pc'[r] = "consume"
          /\ \A r \in Executions : pc'[r] \in Midway => pc'[r] = pc[r]
          /\ \A m \in Prompts :
               \/ inbox'[m] = inbox[m]
               \/ inbox'[m] = "deleted"
               \/ inbox'[m] = "queued" /\ sender[m] = "idle" /\ sender'[m] # "idle"
      BY <1>2, OthersStayMidway, NobodyDropsOut
    <2>2. \A q \in Executions, n \in Prompts : Current(q, n)' <=> Current(q, n)
      BY <2>1 DEF Current
    <2>3. QueuedIsNew'
      BY <2>1, <2>2 DEF OnceInv, QueuedIsNew, IdleIsUnsent
    <2>4. RestIsNew'
      <3>1. \A q \in Executions : batch[q] \subseteq Prompts
        BY DEF TypeOK
      <3>2. QED
        BY <2>1, <2>2, <3>1 DEF OnceInv, RestIsNew, Midway
    <2>5. IdleIsUnsent'
      <3>1. \A m \in Prompts :
              sender'[m] = "idle" => sender[m] = "idle" /\ inbox'[m] = inbox[m]
        BY <1>2, SendersMoveOn
      <3>2. QED
        BY <2>1, <3>1 DEF OnceInv, IdleIsUnsent
    <2>6. QED
      BY <2>1, <2>3, <2>4, <2>5 DEF OnceInv, PromptJournaledOnce
  <1>3. CASE UNCHANGED vars
    BY <1>3 DEF vars, OnceInv, PromptJournaledOnce, QueuedIsNew, RestIsNew, IdleIsUnsent, Current
  <1>4. QED
    BY <1>1, <1>2, <1>3

(* When no execution dies between the two steps and the lease can be       *)
(* relied on, no prompt is ever journaled twice, whatever the operator     *)
(* does: two executions never work on the same prompt.                     *)
THEOREM NoneRepeated ==
  ASSUME NoneDies
  PROVE  Spec => []PromptJournaledOnce
  <1>1. LeaseKept
    BY DEF NoneDies
  <1>2. Init => OnceInv
    BY DEF Init, OnceInv, PromptJournaledOnce, QueuedIsNew, RestIsNew, IdleIsUnsent
  <1>3. TypeOK /\ LeaseInv /\ OnceInv /\ [Next]_vars => OnceInv'
    BY NextOnceInv
  <1>4. OnceInv => PromptJournaledOnce
    BY DEF OnceInv
  <1>5. QED
    BY <1>1, <1>2, <1>3, <1>4, TypeCorrect, LeaseHolds, PTL DEF Spec
=============================================================================
