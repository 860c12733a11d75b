----------------------------- MODULE ApprovalGate -----------------------------
(***************************************************************************)
(* What the approval workflow promises to whoever releases an action: a    *)
(* request is released only when a quorum of distinct people other than    *)
(* its owner has backed it, one at a time, while it was open; a request    *)
(* that was closed without release is never released afterwards.  The      *)
(* owner's withdrawal is the one thing that may undo a release.            *)
(***************************************************************************)
EXTENDS Naturals, FiniteSets

CONSTANTS Requests, Users

VARIABLE gate   (* per request: its phase, owner, quorum and backers *)

Phases == {"absent", "open", "released", "closed"}

Fresh == [phase |-> "absent", owner |-> "none", quorum |-> 0, backers |-> {}]

Init == gate = [r \in Requests |-> Fresh]

Open(r, u, n) ==
  /\ gate[r].phase = "absent"
  /\ gate' = [gate EXCEPT ![r] =
       [phase |-> "open", owner |-> u, quorum |-> n, backers |-> {}]]

Back(r, u) ==
  /\ gate[r].phase = "open"
  /\ u \notin gate[r].backers \cup {gate[r].owner}
  /\ LET backers == gate[r].backers \cup {u} IN
     gate' = [gate EXCEPT ![r] = [@ EXCEPT
                !.backers = backers,
                !.phase = IF Cardinality(backers) = gate[r].quorum
                          THEN "released" ELSE "open"]]

Refuse(S) ==
  /\ \A r \in S : gate[r].phase = "open"
  /\ gate' = [r \in Requests |->
       IF r \in S THEN [gate[r] EXCEPT !.phase = "closed"] ELSE gate[r]]

Withdraw(r) ==
  /\ gate[r].phase # "absent"
  /\ gate' = [gate EXCEPT ![r].phase = "closed"]

Next ==
  \/ \E r \in Requests, u \in Users : \/ \E n \in 1 .. 2 : Open(r, u, n)
                                      \/ Back(r, u)
  \/ \E r \in Requests : Withdraw(r)
  \/ \E S \in SUBSET Requests : Refuse(S)

Spec == Init /\ [][Next]_gate
=============================================================================
