----------------------------- MODULE MCApprovalGate -----------------------------
(* ApprovalGate with a call that is made twice and one to the same tool    *)
(* with another input.                                                     *)
EXTENDS ApprovalGate

CONSTANTS same, different, write, person, relay

ThreeCalls == <<same, different, same>>
AllGated == 1..3
TwoInputs == {same, different}
TheTool == [i \in TwoInputs |-> write]
OnePerson == {person}
OneRelay == {relay}
AllButTwins == {"kill", "exec_dies"}
=============================================================================
