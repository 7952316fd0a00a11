--------------------------- MODULE SessionDocProofs ---------------------------
(***************************************************************************)
(* Facts about the transactions on the session document, for the proofs of *)
(* the modules that apply them.                                            *)
(***************************************************************************)
EXTENDS SessionDoc, TLAPS

(* Every transaction on the session document yields a session document.    *)
LEMMA DocTypes ==
  ASSUME NEW s \in SessionDocs, NEW l \in Nat
  PROVE  /\ MarkStarting(s) \in SessionDocs
         /\ Claimed(s, l) \in SessionDocs
         /\ Renewed(s) \in SessionDocs
         /\ Released(s) \in SessionDocs
         /\ Killed(s) \in SessionDocs
         /\ Disabled(s) \in SessionDocs
         /\ Deleted(s) \in SessionDocs
         /\ Aged(s) \in SessionDocs
  <1>1. /\ 0 \in 0..LeaseTTL /\ LeaseTTL \in 0..LeaseTTL
        /\ StartGrace \in 0..StartGrace /\ NoLease \in Nat
        /\ {"starting", "running", "idle", "terminated"} \subseteq Statuses
    BY DurationAssumption DEF NoLease, Statuses
  <1>2. MarkStarting(s) \in SessionDocs /\ Claimed(s, l) \in SessionDocs
    BY <1>1 DEF SessionDocs, MarkStarting, Claimed
  <1>3. Renewed(s) \in SessionDocs /\ Released(s) \in SessionDocs
    BY <1>1 DEF SessionDocs, Renewed, Released
  <1>4. /\ Killed(s) \in SessionDocs /\ Disabled(s) \in SessionDocs
        /\ Deleted(s) \in SessionDocs
    BY <1>1 DEF SessionDocs, Killed, Disabled, Deleted
  <1>5. Aged(s) \in SessionDocs
    <2>1. /\ (IF s.lease_left > 0 THEN s.lease_left - 1 ELSE 0) \in 0..LeaseTTL
          /\ (IF s.start_left > 0 THEN s.start_left - 1 ELSE 0) \in 0..StartGrace
      BY DurationAssumption DEF SessionDocs
    <2>2. QED
      BY <2>1 DEF SessionDocs, Aged
  <1>6. QED
    BY <1>2, <1>3, <1>4, <1>5

LEMMA NewSessionType == NewSession \in SessionDocs
  BY DurationAssumption DEF NewSession, SessionDocs, Statuses, NoLease

(* None but create_session makes a document exist, none but a delete ends  *)
(* it.                                                                     *)
LEMMA DocStands ==
  ASSUME NEW s \in SessionDocs, NEW l \in Nat
  PROVE  /\ MarkStarting(s).exists = s.exists
         /\ Claimed(s, l).exists = s.exists
         /\ Released(s).exists = s.exists
         /\ Killed(s).exists = s.exists
         /\ Aged(s).exists = s.exists
  BY DEF SessionDocs, MarkStarting, Claimed, Released, Killed, Aged
=============================================================================
