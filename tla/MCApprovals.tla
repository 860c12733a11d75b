----------------------------- MODULE MCApprovals -----------------------------
(* A requester and two others is the fewest people the two-person rule can *)
(* be met by; one of them is an administrator.                             *)
EXTENDS Approvals

CONSTANTS r1, ann, bob, eve

MCRequests == {r1}
MCUsers == {ann, bob, eve}
MCAdmins == {eve}
=============================================================================
