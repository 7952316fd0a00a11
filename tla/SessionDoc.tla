------------------------------ MODULE SessionDoc ------------------------------
(***************************************************************************)
(* The session document of the store (src/src/syros/store.py): the         *)
(* `runtime` map and the kill switch, the predicates every component reads *)
(* them with, and the Firestore transactions that change them.  A          *)
(* transaction is an operator from documents to documents; the modules of  *)
(* the runner, the clients and the console apply it in one atomic step,    *)
(* which is what the transaction gives them.                               *)
(*                                                                         *)
(* Time is kept relative to now: lease_left is lease_expires - now and     *)
(* start_left what remains of the grace window opened at triggered_at,     *)
(* both cut off at 0, where every predicate of the code stops telling      *)
(* values apart.  heartbeat_at, updated_at and the durable fields          *)
(* (options, cost, title ...) steer nothing modelled here.                 *)
(***************************************************************************)
EXTENDS Naturals

CONSTANTS LeaseTTL,    \* lease_ttl, in ticks of the model's clock
          StartGrace   \* START_GRACE_SECONDS, in the same ticks

ASSUME DurationAssumption == LeaseTTL \in Nat \ {0} /\ StartGrace \in Nat \ {0}

NoLease == 0           \* lease_id = None; a lease id is an execution's number

Statuses == {"queued", "starting", "running", "idle", "terminated"}

SessionDocs ==
  [exists : BOOLEAN, disabled : BOOLEAN, status : Statuses,
   lease_id : Nat, lease_left : 0..LeaseTTL, start_left : 0..StartGrace]

(* create_session: queued, never triggered, held by nobody.                *)
NewSession ==
  [exists |-> TRUE, disabled |-> FALSE, status |-> "queued",
   lease_id |-> NoLease, lease_left |-> 0, start_left |-> 0]

-----------------------------------------------------------------------------
(* The predicates.                                                         *)

(* Mutant: the lease is given up one tick before it runs out.              *)
LeaseActiveShort(s) == s.exists /\ s.lease_left > 1

LeaseActive(s) == s.exists /\ s.lease_left > 0

IsDead(s) == ~s.exists \/ s.disabled \/ s.status = "terminated"

StartPending(s) == s.exists /\ s.status = "starting" /\ s.start_left > 0

(* What the console shows, and what its delete is guarded by.              *)
DerivedState(s) ==
  CASE s.status = "terminated" \/ s.disabled -> "terminated"
    [] s.status = "running" /\ ~s.disabled ->
         IF LeaseActive(s) THEN "running" ELSE "stalled"
    [] s.status = "starting" /\ ~s.disabled ->
         IF StartPending(s) THEN "starting" ELSE "stalled"
    [] s.status \in {"queued", "idle"} /\ ~s.disabled -> s.status

-----------------------------------------------------------------------------
(* The transactions.                                                       *)

(* Mutant: no look at the run that may have claimed meanwhile.             *)
MarkStartingBlindly(s) ==
  IF IsDead(s) THEN s ELSE [s EXCEPT !.status = "starting", !.start_left = StartGrace]

(* mark_starting: skipped for the dead and for a run that really is live.  *)
MarkStarting(s) ==
  IF IsDead(s) \/ (s.status = "running" /\ LeaseActive(s))
  THEN s
  ELSE [s EXCEPT !.status = "starting", !.start_left = StartGrace]

(* Mutant: whoever comes last takes the session.                           *)
CanClaimAnyway(s, lease) == ~IsDead(s) \/ s.lease_id = lease

(* claim_session: refused to the dead and while another lease is live.     *)
CanClaim(s, lease) == ~IsDead(s) /\ (LeaseActive(s) => s.lease_id = lease)

Claimed(s, lease) ==
  [s EXCEPT !.status = "running", !.lease_id = lease, !.lease_left = LeaseTTL]

(* renew_lease: the id is compared, the expiry is not, so a lease that     *)
(* lapsed and was taken by nobody is revived.                              *)
CanRenew(s, lease) == ~IsDead(s) /\ s.lease_id = lease

Renewed(s) == [s EXCEPT !.lease_left = LeaseTTL]

(* release_session: a plain update; whose lease it clears is not asked.    *)
Released(s) ==
  [s EXCEPT !.status = "idle", !.lease_id = NoLease, !.lease_left = 0]

(* The kill switch: the console and client.terminate() also set the        *)
(* status; the CLI's kill sets the flag alone.                             *)
Killed(s) == [s EXCEPT !.status = "terminated", !.disabled = TRUE]
Disabled(s) == [s EXCEPT !.disabled = TRUE]

(* The document is gone; the fields below are never read again.            *)
Deleted(s) == [s EXCEPT !.exists = FALSE]

(* One tick of the clock, as the document's readers see it.                *)
Aged(s) ==
  [s EXCEPT !.lease_left = IF @ > 0 THEN @ - 1 ELSE 0,
            !.start_left = IF @ > 0 THEN @ - 1 ELSE 0]
=============================================================================
